---- MODULE Spec2Model ----
(***************************************************************************)
(* Model of the llm_rag answer workflow (graph/nodes.py, graph/workflow.py, *)
(* agent.py) and of the retrieval gateway (vector_store.py).                *)
(*                                                                         *)
(* Conventions.                                                            *)
(*  - A Python str is a sequence of tokens (TLA+ strings); a query is a    *)
(*    sequence of one-character tokens, so that strip(), lower() and len() *)
(*    are computed.  The empty str is << >>.                               *)
(*  - An Optional value is None (<< >>) or Some(v) (<< v >>).              *)
(*  - Distances and similarities are fixed-point integers in units of      *)
(*    10^-(Casas+1), i.e. one decimal digit more than round(x, 4) keeps.   *)
(***************************************************************************)
EXTENDS Integers, Sequences, FiniteSets, TLC

VARIABLES
    collection,   \* VectorStore.collection: None or Some(collection name)
    limiar,       \* config.retrieval_similarity_threshold (fixed point)
    pc,           \* position of the run: idle, a node name, done, retornado, excecao
    state,        \* the AgentState flowing through the graph
    resultado,    \* value returned by processar_consulta: None or Some(dict)
    executados,   \* spy: names of the nodes executed in this run, in order
    busca,        \* spy: calls of vector_store.buscar_documentos in this run
    llm,          \* spy: calls of criar_llm / llm.invoke in this run
    texto,        \* data_masking: the text argument of the calls
    mask_char,    \* data_masking: the mask_char argument of the calls
    origem,       \* data_masking: None, or Some(t) when texto is what
                  \*   mask_all_pii(t, mask_char) returned
    chamada,      \* data_masking: the last call made on texto, None before it
    mascarado,    \* data_masking: the value the last call returned
    gerados,      \* PDFProcessor: the last two calls of _gerar_chunk_id, each
                  \*   with its arguments and the id it returned
    armazenados,  \* the records of the remote collection, one per chunk id
    operacao,     \* VectorStore: None, or Some(the last call that wrote to the
                  \*   collection, with what it returned)
    uploaded_files,    \* process_pdf_files: the files of the batch, each with
                       \*   what loading and indexing it will run into
    progress_callback, \* process_pdf_files: no callback, one that returns, or
                       \*   one that raises
    lote,         \* process_pdf_files: its position (pc), idx, total_chunks,
                  \*   errors and what it returned
    eventos,      \* spy: the progress reports and the files processed, in order
    entrada,      \* graph/nodes.py: the AgentState a node function is called with
    no_chamado,   \* graph/nodes.py: None, or Some(name of the function called)
    devolvido,    \* graph/nodes.py: what the function called returned
    conexao,      \* VectorStore._conectar_chromadb: its position, its arguments,
                  \*   the attempts and waits made so far and what it returned
    sessao        \* simple_rag chat: the message_history of the session and the
                  \*   turns handled so far

vars == <<collection, limiar, pc, state, resultado, executados, busca, llm,
          texto, mask_char, origem, chamada, mascarado, gerados,
          armazenados, operacao, uploaded_files, progress_callback, lote, eventos,
          entrada, no_chamado, devolvido, conexao, sessao>>

\* the variables of the answer workflow and of the retrieval gateway
vars_workflow == <<collection, limiar, pc, state, resultado, executados, busca, llm>>

\* the variables of the masking library
vars_masking == <<texto, mask_char, origem, chamada, mascarado>>

\* the variables of the ingestion of documents
vars_ingestao == <<gerados, armazenados, operacao,
                   uploaded_files, progress_callback, lote, eventos>>

\* the variables of a batch of uploaded files
vars_lote == <<uploaded_files, progress_callback, lote, eventos>>

\* the variables of the node functions called on their own, of the
\* connection to the index and of the chat session
vars_outros == <<entrada, no_chamado, devolvido, conexao, sessao>>

----------------------------------------------------------------------------
(* Bounds of the model *)

MaxCandidatos == 3

----------------------------------------------------------------------------
(* Option values and small helpers *)

None == << >>

Some(v) == << v >>

\* no node function called, no connection under way, no chat session
OutrosParados ==
    /\ entrada = None
    /\ no_chamado = None
    /\ devolvido = None
    /\ conexao = [pc |-> "parado"]
    /\ sessao = [pc |-> "parado"]

Min(a, b) == IF a <= b THEN a ELSE b

IsSuffix(s, t) ==
    /\ Len(s) <= Len(t)
    /\ SubSeq(t, Len(t) - Len(s) + 1, Len(t)) = s

----------------------------------------------------------------------------
(* Python str methods used by analisar_consulta *)

Espacos == {" ", "\t", "\n"}

Maiusculas == <<"A", "B", "C", "D", "E", "F", "G", "H", "I", "J", "K", "L", "M",
                "N", "O", "P", "Q", "R", "S", "T", "U", "V", "W", "X", "Y", "Z",
                "Á">>

Minusculas == <<"a", "b", "c", "d", "e", "f", "g", "h", "i", "j", "k", "l", "m",
                "n", "o", "p", "q", "r", "s", "t", "u", "v", "w", "x", "y", "z",
                "á">>

LowerChar(c) ==
    IF \E i \in 1..Len(Maiusculas) : Maiusculas[i] = c
    THEN Minusculas[CHOOSE i \in 1..Len(Maiusculas) : Maiusculas[i] = c]
    ELSE c

Lower(s) == [i \in 1..Len(s) |-> LowerChar(s[i])]

RECURSIVE LStrip(_)
LStrip(s) ==
    IF s = << >> THEN s
    ELSE IF Head(s) \in Espacos THEN LStrip(Tail(s)) ELSE s

RECURSIVE RStrip(_)
RStrip(s) ==
    IF s = << >> THEN s
    ELSE IF s[Len(s)] \in Espacos THEN RStrip(SubSeq(s, 1, Len(s) - 1)) ELSE s

Strip(s) == RStrip(LStrip(s))

----------------------------------------------------------------------------
(* Fixed-point arithmetic: round(x, 4) and the format spec .2f *)

Casas == 4

Um == 10 ^ (Casas + 1)

RoundAbs(a) ==
    LET q == a \div 10
        r == a % 10
    IN  IF r > 5 \/ (r = 5 /\ q % 2 = 1) THEN (q + 1) * 10 ELSE q * 10

Round4(x) == IF x >= 0 THEN RoundAbs(x) ELSE 0 - RoundAbs(0 - x)

Fmt2Abs(a) ==
    LET q == a \div (Um \div 100)
        r == a % (Um \div 100)
        c == IF 2 * r > (Um \div 100) \/ (2 * r = (Um \div 100) /\ q % 2 = 1)
             THEN q + 1 ELSE q
    IN  ToString(c \div 100) \o "." \o ToString((c % 100) \div 10) \o ToString(c % 10)

Fmt2(x) == IF x >= 0 THEN Fmt2Abs(x) ELSE "-" \o Fmt2Abs(0 - x)

----------------------------------------------------------------------------
(* Results of a call that may raise: Ok(value) or Raise(str(exception)) *)

Ok(v) == [tipo |-> "ok", valor |-> v, msg |-> << >>]

Raise(m) == [tipo |-> "raise", valor |-> << >>, msg |-> m]

----------------------------------------------------------------------------
(* The remote index (ChromaDB) and the embedding provider, seen from        *)
(* buscar_documentos: what they answer to one query                         *)

retrieval_top_k == 5

MsgColecaoNaoCriada == <<"Coleção não foi criada. Execute criar_colecao() primeiro.">>

Chunks == {
    [texto |-> "t1", metadata |-> [documento_nome |-> "a.pdf", numero_pagina |-> 1]],
    [texto |-> "t2", metadata |-> [documento_nome |-> "a.pdf", numero_pagina |-> 1]],
    [texto |-> "t3", metadata |-> [documento_nome |-> "a.pdf", numero_pagina |-> 2]] }

Distancias == {29995, 30000, 30004}

Limiares == {70000, 69990}

\* the default of Config.retrieval_similarity_threshold, 0.7
retrieval_similarity_threshold == 7 * 10 ^ Casas

ErrosRemotos == { <<"Connection refused">>, << >> }

\* candidate lists the index can return for n_results = retrieval_top_k:
\* distinct chunks, each with a distance
Candidatos ==
    UNION { { c \in [1..n -> [chunk : Chunks, distancia : Distancias]] :
                \A i, j \in 1..n : i # j => c[i].chunk # c[j].chunk } :
            n \in 0..Min(MaxCandidatos, retrieval_top_k) }

\* the dict collection.query returns for one query embedding
Resultados(c) ==
    [documents |-> << [i \in 1..Len(c) |-> c[i].chunk.texto] >>,
     metadatas |-> << [i \in 1..Len(c) |-> c[i].chunk.metadata] >>,
     distances |-> << [i \in 1..Len(c) |-> c[i].distancia] >>]

RespostasIndice ==
    { Ok(Resultados(c)) : c \in Candidatos } \cup { Raise(e) : e \in ErrosRemotos }

----------------------------------------------------------------------------
(* VectorStore.buscar_documentos *)

\* variant: the threshold is applied to the rounded score
RECURSIVE FormatarResultados_limiar_arredondado(_, _, _, _)
FormatarResultados_limiar_arredondado(resultados, idx, lim, documentos) ==
    IF idx > Len(resultados.documents[1]) THEN documentos
    ELSE LET distancia == resultados.distances[1][idx]
             similaridade == Um - distancia
             doc == [texto |-> resultados.documents[1][idx],
                     metadata |-> resultados.metadatas[1][idx],
                     score |-> Round4(similaridade),
                     distancia |-> Round4(distancia)]
         IN  FormatarResultados_limiar_arredondado(resultados, idx + 1, lim,
                 IF Round4(similaridade) >= lim THEN Append(documentos, doc)
                 ELSE documentos)

RECURSIVE FormatarResultados(_, _, _, _)
FormatarResultados(resultados, idx, lim, documentos) ==
    IF idx > Len(resultados.documents[1]) THEN documentos
    ELSE LET distancia == resultados.distances[1][idx]
             similaridade == Um - distancia
             doc == [texto |-> resultados.documents[1][idx],
                     metadata |-> resultados.metadatas[1][idx],
                     score |-> Round4(similaridade),
                     distancia |-> Round4(distancia)]
         IN  FormatarResultados(resultados, idx + 1, lim,
                 IF similaridade >= lim THEN Append(documentos, doc)
                 ELSE documentos)

\* variant: no check that the collection was created
buscar_documentos_sem_guarda(col, remoto, lim) ==
    IF remoto.tipo = "raise" THEN Raise(remoto.msg)
    ELSE Ok(FormatarResultados(remoto.valor, 1, lim, << >>))

buscar_documentos(col, remoto, lim) ==
    IF col = None THEN Raise(MsgColecaoNaoCriada)
    ELSE IF remoto.tipo = "raise" THEN Raise(remoto.msg)
    ELSE LET resultados == remoto.valor
         IN  IF resultados.documents # << >> /\ Len(resultados.documents) > 0
             THEN Ok(FormatarResultados(resultados, 1, lim, << >>))
             ELSE Ok(<< >>)

\* VectorStore.criar_colecao: get_or_create_collection may raise, and then
\* self.collection keeps its value
chroma_colecao == "documentos_pdf"

criar_colecao(col, nome, remoto_ok) == IF remoto_ok THEN Some(nome) ELSE col

----------------------------------------------------------------------------
(* graph/nodes.py: the nodes of the graph.  A node returns Ok(new state);   *)
(* Raise(...) stands for an exception leaving the node.                     *)

saudacoes == << <<"o", "i">>, <<"o", "l", "á">>,
                <<"b", "o", "m", " ", "d", "i", "a">>,
                <<"b", "o", "a", " ", "t", "a", "r", "d", "e">>,
                <<"b", "o", "a", " ", "n", "o", "i", "t", "e">>,
                <<"h", "e", "l", "l", "o">>, <<"h", "i">> >>

\* variant: queries of up to 3 characters count as short
analisar_consulta_ate_3(st) ==
    LET consulta == st.consulta
        consulta_lower == Strip(Lower(consulta))
        precisa_recuperacao ==
            ~ (  (\E i \in 1..Len(saudacoes) : saudacoes[i] = consulta_lower)
              \/ Len(Strip(consulta)) <= 3 )
    IN  Ok([st EXCEPT !.precisa_recuperacao = precisa_recuperacao])

analisar_consulta(st) ==
    LET consulta == st.consulta
        consulta_lower == Strip(Lower(consulta))
        precisa_recuperacao ==
            ~ (  (\E i \in 1..Len(saudacoes) : saudacoes[i] = consulta_lower)
              \/ Len(Strip(consulta)) < 3 )
    IN  Ok([st EXCEPT !.precisa_recuperacao = precisa_recuperacao])

\* variant: every chunk contributes a source, duplicates included
RECURSIVE PrepararFontes_sem_dedup(_, _, _)
PrepararFontes_sem_dedup(documentos, i, fontes) ==
    IF i > Len(documentos) THEN fontes
    ELSE LET doc == documentos[i]
             fonte == [documento_nome |-> doc.metadata.documento_nome,
                       numero_pagina |-> doc.metadata.numero_pagina,
                       score |-> doc.score]
         IN  PrepararFontes_sem_dedup(documentos, i + 1, Append(fontes, fonte))

RECURSIVE PrepararFontes(_, _, _)
PrepararFontes(documentos, i, fontes) ==
    IF i > Len(documentos) THEN fontes
    ELSE LET doc == documentos[i]
             fonte == [documento_nome |-> doc.metadata.documento_nome,
                       numero_pagina |-> doc.metadata.numero_pagina,
                       score |-> doc.score]
         IN  PrepararFontes(documentos, i + 1,
                 IF \E k \in 1..Len(fontes) : fontes[k] = fonte
                 THEN fontes ELSE Append(fontes, fonte))

\* variant: the retrieval call is not wrapped in try/except
recuperar_documentos_sem_try(st, busca_saida) ==
    IF ~ st.precisa_recuperacao THEN Ok(st)
    ELSE IF busca_saida.tipo = "ok"
         THEN Ok([st EXCEPT !.documentos_recuperados = busca_saida.valor,
                            !.fontes = PrepararFontes(busca_saida.valor, 1, << >>),
                            !.erro = None])
         ELSE Raise(busca_saida.msg)

\* busca_saida is what vector_store.buscar_documentos returned or raised
recuperar_documentos(st, busca_saida) ==
    IF ~ st.precisa_recuperacao THEN Ok(st)
    ELSE IF busca_saida.tipo = "ok"
         THEN Ok([st EXCEPT !.documentos_recuperados = busca_saida.valor,
                            !.fontes = PrepararFontes(busca_saida.valor, 1, << >>),
                            !.erro = None])
         ELSE Ok([st EXCEPT !.documentos_recuperados = << >>,
                            !.fontes = << >>,
                            !.erro = Some(<<"Erro ao recuperar documentos: ">>
                                          \o busca_saida.msg)])

SemDocumentos == <<"Nenhum documento relevante foi encontrado.">>

ContextoPart(idx, doc) ==
    <<"[Documento ", ToString(idx), ": ", doc.metadata.documento_nome,
      " - Página ", ToString(doc.metadata.numero_pagina),
      " - Relevância: ", Fmt2(doc.score), "]\n", doc.texto, "\n">>

RECURSIVE JoinParts(_, _)
JoinParts(documentos, idx) ==
    IF idx > Len(documentos) THEN << >>
    ELSE (IF idx > 1 THEN <<"\n---\n">> ELSE << >>)
         \o ContextoPart(idx, documentos[idx])
         \o JoinParts(documentos, idx + 1)

\* variant: no special case for an empty list of documents
formatar_contexto_sem_sentinela(st) ==
    IF ~ st.precisa_recuperacao THEN Ok([st EXCEPT !.contexto = << >>])
    ELSE Ok([st EXCEPT !.contexto = JoinParts(st.documentos_recuperados, 1)])

formatar_contexto(st) ==
    IF ~ st.precisa_recuperacao THEN Ok([st EXCEPT !.contexto = << >>])
    ELSE LET documentos == st.documentos_recuperados
         IN  IF documentos = << >>
             THEN Ok([st EXCEPT !.contexto = SemDocumentos])
             ELSE Ok([st EXCEPT !.contexto = JoinParts(documentos, 1)])

Provedores == {"openai", "anthropic", "ollama", "outro"}

\* construtor_ok: whether the provider's client constructor returns
criar_llm(provider, construtor) ==
    IF provider \in {"openai", "anthropic", "ollama"}
    THEN construtor
    ELSE Raise(<<"Provedor LLM não suportado: ", provider>>)

\* the messages gerar_resposta builds for llm.invoke
Mensagens(st) ==
    IF st.precisa_recuperacao /\ st.contexto # << >>
    THEN [template |-> "com_contexto", contexto |-> st.contexto,
          consulta |-> st.consulta]
    ELSE [template |-> "sem_contexto", contexto |-> << >>,
          consulta |-> st.consulta]

Desculpe == <<"Desculpe, ocorreu um erro ao gerar a resposta: ">>

\* variant: the except branch also empties the sources, as the one of
\* recuperar_documentos does
gerar_resposta_limpa_fontes(st, llm_criado, invoke_saida) ==
    LET falha == IF llm_criado.tipo = "raise" THEN Some(llm_criado.msg)
                 ELSE IF invoke_saida.tipo = "raise" THEN Some(invoke_saida.msg)
                 ELSE None
    IN  IF falha = None
        THEN Ok([st EXCEPT !.resposta = invoke_saida.valor, !.erro = None])
        ELSE Ok([st EXCEPT !.resposta = Desculpe \o falha[1],
                           !.erro = Some(falha[1]),
                           !.fontes = << >>])

\* variant: the except branch drops the error string from the message
gerar_resposta_mensagem_fixa(st, llm_criado, invoke_saida) ==
    LET falha == IF llm_criado.tipo = "raise" THEN Some(llm_criado.msg)
                 ELSE IF invoke_saida.tipo = "raise" THEN Some(invoke_saida.msg)
                 ELSE None
    IN  IF falha = None
        THEN Ok([st EXCEPT !.resposta = invoke_saida.valor, !.erro = None])
        ELSE Ok([st EXCEPT !.resposta = Desculpe, !.erro = Some(falha[1])])

\* llm_criado is what criar_llm returned or raised, invoke_saida what
\* llm.invoke returned or raised
gerar_resposta(st, llm_criado, invoke_saida) ==
    LET falha == IF llm_criado.tipo = "raise" THEN Some(llm_criado.msg)
                 ELSE IF invoke_saida.tipo = "raise" THEN Some(invoke_saida.msg)
                 ELSE None
    IN  IF falha = None
        THEN Ok([st EXCEPT !.resposta = invoke_saida.valor, !.erro = None])
        ELSE Ok([st EXCEPT !.resposta = Desculpe \o falha[1],
                           !.erro = Some(falha[1])])

\* Python truthiness of state.get("erro")
Truthy(opt) == opt # None /\ opt[1] # << >>

\* variant: the fork ignores precisa_recuperacao
decidir_proximo_no_ignora_flag(st) ==
    IF Truthy(st.erro) THEN "fim" ELSE "recuperar"

decidir_proximo_no(st) ==
    IF Truthy(st.erro) THEN "fim"
    ELSE IF ~ st.precisa_recuperacao THEN "gerar"
    ELSE "recuperar"

----------------------------------------------------------------------------
(* graph/workflow.py: the edges of the graph *)

END == "done"

ProximoNo(no, st) ==
    CASE no = "analisar" ->
            (LET d == decidir_proximo_no(st)
             IN  IF d = "recuperar" THEN "recuperar"
                 ELSE IF d = "gerar" THEN "gerar"
                 ELSE END)
      [] no = "recuperar" -> "formatar"
      [] no = "formatar" -> "gerar"
      [] no = "gerar" -> END

----------------------------------------------------------------------------
(* agent.py: RAGAgent.processar_consulta *)

Consultas == { <<"o", "i">>, <<" ", "O", "i", "\n">>, <<"a", "b">>,
               <<"R", "A", "G", "?">>, <<"o", "i", "e">> }

Historicos == { << >>, << [role |-> "user", content |-> <<"o", "i">>] >> }

Respostas == { <<"Resposta do modelo.">> }

ErrosLLM == { <<"timeout">>, << >> }

Construtores == { Ok("llm") } \cup { Raise(e) : e \in ErrosLLM }

InvokeSaidas == { Ok(r) : r \in Respostas } \cup { Raise(e) : e \in ErrosLLM }

\* variant: the state starts with the error text of an earlier request
estado_inicial_com_erro(consulta, historico_conversa) ==
    [consulta |-> consulta,
     historico_conversa |-> historico_conversa,
     documentos_recuperados |-> << >>,
     contexto |-> << >>,
     resposta |-> << >>,
     fontes |-> << >>,
     precisa_recuperacao |-> TRUE,
     erro |-> Some(<<"timeout">>)]

estado_inicial(consulta, historico_conversa) ==
    [consulta |-> consulta,
     historico_conversa |-> historico_conversa,
     documentos_recuperados |-> << >>,
     contexto |-> << >>,
     resposta |-> << >>,
     fontes |-> << >>,
     precisa_recuperacao |-> TRUE,
     erro |-> None]

FormatarResposta(res) ==
    [resposta |-> res.resposta,
     fontes |-> res.fontes,
     num_documentos_usados |-> Len(res.documentos_recuperados),
     erro |-> res.erro]

Nos == {"analisar", "recuperar", "formatar", "gerar"}

----------------------------------------------------------------------------
(* The state machine *)

Init ==
    /\ collection = None
    /\ limiar \in Limiares
    /\ pc = "idle"
    /\ state = None
    /\ resultado = None
    /\ executados = << >>
    /\ busca = << >>
    /\ llm = << >>
    /\ texto = << >>
    /\ mask_char = "*"
    /\ origem = << >>
    /\ chamada = << >>
    /\ mascarado = << >>
    /\ gerados = << >>
    /\ armazenados = {}
    /\ operacao = << >>
    /\ uploaded_files = << >>
    /\ progress_callback = "nenhum"
    /\ lote = [pc |-> "parado"]
    /\ eventos = << >>
    /\ OutrosParados

\* DocumentManager.__init__ -> vector_store.criar_colecao()
CriarColecao ==
    /\ pc \in {"idle", "retornado"}
    /\ \E remoto_ok \in BOOLEAN :
          collection' = criar_colecao(collection, chroma_colecao, remoto_ok)
    /\ UNCHANGED <<limiar, pc, state, resultado, executados, busca, llm>>
    /\ UNCHANGED vars_masking
    /\ UNCHANGED vars_ingestao
    /\ UNCHANGED vars_outros

\* processar_consulta up to workflow.invoke(estado_inicial)
ProcessarConsulta ==
    /\ pc \in {"idle", "retornado", "excecao"}
    /\ \E consulta \in Consultas, historico \in Historicos :
          state' = estado_inicial(consulta, historico)
    /\ pc' = "analisar"
    /\ resultado' = None
    /\ executados' = << >>
    /\ busca' = << >>
    /\ llm' = << >>
    /\ UNCHANGED <<collection, limiar>>
    /\ UNCHANGED vars_masking
    /\ UNCHANGED vars_ingestao
    /\ UNCHANGED vars_outros

\* one node of the graph runs and the graph follows the edge out of it
Passo(no, r) ==
    /\ executados' = Append(executados, no)
    /\ IF r.tipo = "ok"
       THEN /\ state' = r.valor
            /\ pc' = ProximoNo(no, r.valor)
       ELSE /\ state' = state
            /\ pc' = "excecao"

Analisar ==
    /\ pc = "analisar"
    /\ Passo("analisar", analisar_consulta(state))
    /\ UNCHANGED <<collection, limiar, resultado, busca, llm>>
    /\ UNCHANGED vars_masking
    /\ UNCHANGED vars_ingestao
    /\ UNCHANGED vars_outros

Recuperar ==
    /\ pc = "recuperar"
    /\ \E remoto \in RespostasIndice :
          LET saida == buscar_documentos(collection, remoto, limiar)
          IN  /\ Passo("recuperar", recuperar_documentos(state, saida))
              /\ busca' = IF state.precisa_recuperacao
                          THEN Append(busca,
                                   [colecao |-> collection,
                                    remoto |-> IF collection = None THEN None
                                               ELSE Some(remoto),
                                    saida |-> saida])
                          ELSE busca
    /\ UNCHANGED <<collection, limiar, resultado, llm>>
    /\ UNCHANGED vars_masking
    /\ UNCHANGED vars_ingestao
    /\ UNCHANGED vars_outros

Formatar ==
    /\ pc = "formatar"
    /\ Passo("formatar", formatar_contexto(state))
    /\ UNCHANGED <<collection, limiar, resultado, busca, llm>>
    /\ UNCHANGED vars_masking
    /\ UNCHANGED vars_ingestao
    /\ UNCHANGED vars_outros

Gerar ==
    /\ pc = "gerar"
    /\ \E provider \in Provedores, construtor \in Construtores,
          invoke_saida \in InvokeSaidas :
          LET llm_criado == criar_llm(provider, construtor)
          IN  /\ Passo("gerar", gerar_resposta(state, llm_criado, invoke_saida))
              /\ llm' = Append(llm,
                            [criar |-> llm_criado,
                             invoke |-> IF llm_criado.tipo = "ok"
                                        THEN Some([mensagens |-> Mensagens(state),
                                                   saida |-> invoke_saida])
                                        ELSE None])
    /\ UNCHANGED <<collection, limiar, resultado, busca>>
    /\ UNCHANGED vars_masking
    /\ UNCHANGED vars_ingestao
    /\ UNCHANGED vars_outros

\* workflow.invoke returned: processar_consulta formats and returns the result
Retornar ==
    /\ pc = END
    /\ resultado' = Some(FormatarResposta(state))
    /\ pc' = "retornado"
    /\ UNCHANGED <<collection, limiar, state, executados, busca, llm>>
    /\ UNCHANGED vars_masking
    /\ UNCHANGED vars_ingestao
    /\ UNCHANGED vars_outros

Next ==
    \/ CriarColecao
    \/ ProcessarConsulta
    \/ Analisar
    \/ Recuperar
    \/ Formatar
    \/ Gerar
    \/ Retornar

Spec == Init /\ [][Next]_vars

\* LangGraph runs the nodes of one invocation to completion, one after the other
FairSpec ==
    /\ Spec
    /\ WF_vars(Analisar)
    /\ WF_vars(Recuperar)
    /\ WF_vars(Formatar)
    /\ WF_vars(Gerar)
    /\ WF_vars(Retornar)

----------------------------------------------------------------------------
(* What the spies saw in the current run *)

Ultimo(seq) == seq[Len(seq)]

EmExecucao == pc \in Nos \cup {END, "retornado", "excecao"}

\* the retrieval call made by RETRIEVE raised
FalhaRecuperacao == busca # << >> /\ Ultimo(busca).saida.tipo = "raise"

\* the error raised inside the try block of GENERATE, if any
FalhaLLM(c) ==
    IF c.criar.tipo = "raise" THEN Some(c.criar.msg)
    ELSE IF c.invoke[1].saida.tipo = "raise" THEN Some(c.invoke[1].saida.msg)
    ELSE None

LLMInvocado == \E i \in 1..Len(llm) : llm[i].invoke # None

Executou(no) == \E i \in 1..Len(executados) : executados[i] = no

----------------------------------------------------------------------------
(* Claims *)

\* C1: when the retrieval call in RETRIEVE fails, the run goes from RETRIEVE
\* directly to DONE: FORMAT and GENERATE do not execute and the language
\* model is not invoked in that run.
C1_FalhaVaiParaDone ==
    FalhaRecuperacao =>
        /\ pc \in {END, "retornado"}
        /\ ~ Executou("formatar")
        /\ ~ Executou("gerar")
        /\ ~ LLMInvocado

\* C2: in every run whose retrieval call raised, the result returned to the
\* caller has a non-null error, no retrieved chunks, and an answer that was
\* not produced by GENERATE with the retrieval-grounded template.
C2_ResultadoDaFalha ==
    (pc = "retornado" /\ FalhaRecuperacao) =>
        /\ resultado[1].erro # None
        /\ resultado[1].num_documentos_usados = 0
        /\ state.documentos_recuperados = << >>
        /\ ~ \E i \in 1..Len(llm) :
                /\ llm[i].invoke # None
                /\ llm[i].invoke[1].mensagens.template = "com_contexto"
                /\ llm[i].invoke[1].saida.tipo = "ok"
                /\ resultado[1].resposta = llm[i].invoke[1].saida.valor

C3_Passo ==
    pc \in Nos =>
       /\ (state'.erro # None => pc' = END)
       /\ (state.erro # None =>
             /\ state'.erro # None
             /\ state'.fontes = state.fontes
             /\ \/ state'.resposta = state.resposta
                \/ \E n \in 0..Len(state'.resposta) :
                      SubSeq(state'.resposta, 1, n) = Desculpe)

\* C3: once erro is non-null, no later step changes resposta or fontes except
\* to write an error message, erro is not cleared, and the step that set erro
\* leads to the terminal state DONE.
C3_ErroEhTerminal == [][C3_Passo]_vars

\* C4: when ANALYZE classifies the query as not needing retrieval, the run is
\* ANALYZE -> GENERATE -> DONE: RETRIEVE and FORMAT never execute and
\* vector_store.buscar_documentos is called zero times.
C4_SemRecuperacao ==
    (EmExecucao /\ Executou("analisar") /\ ~ state.precisa_recuperacao) =>
        /\ Len(busca) = 0
        /\ ~ Executou("recuperar")
        /\ ~ Executou("formatar")
        /\ pc \in {"gerar", END, "retornado"}
        /\ pc = "gerar" => executados = <<"analisar">>
        /\ pc \in {END, "retornado"} => executados = <<"analisar", "gerar">>

C4_Witness ==
    /\ pc = "retornado"
    /\ state.consulta = <<"o", "i">>
    /\ ~ state.precisa_recuperacao
    /\ executados = <<"analisar", "gerar">>
    /\ Len(busca) = 0

\* C5: when criar_llm or llm.invoke fails inside GENERATE, the node does not
\* raise: it returns a state whose resposta is the apology followed by the
\* error string and whose erro is that error string.
C5_FalhaDoLLM ==
    (EmExecucao /\ llm # << >> /\ FalhaLLM(Ultimo(llm)) # None) =>
        LET e == FalhaLLM(Ultimo(llm))[1]
        IN  /\ pc \in {END, "retornado"}
            /\ state.resposta = Desculpe \o e
            /\ IsSuffix(e, state.resposta)
            /\ state.erro = Some(e)

C5_Witness ==
    /\ pc = END
    /\ llm # << >>
    /\ Ultimo(llm).invoke # None
    /\ Ultimo(llm).invoke[1].saida = Raise(<<"timeout">>)
    /\ state.resposta = Desculpe \o <<"timeout">>
    /\ state.erro = Some(<<"timeout">>)

C6_CamposDoResultado == {"resposta", "fontes", "num_documentos_usados", "erro"}

\* C6: for every query and every combination of retrieval failure and
\* generation failure, processar_consulta terminates and returns a result
\* with the fields resposta, fontes, num_documentos_usados and erro; no
\* exception of the retrieval gateway or of the language model leaves the
\* workflow.
C6_SempreRetorna ==
    /\ [](pc # "excecao")
    /\ [](pc = "retornado" =>
            /\ resultado # None
            /\ DOMAIN resultado[1] = C6_CamposDoResultado
            /\ resultado[1] = FormatarResposta(state))
    /\ (pc = "analisar" ~> pc = "retornado")

C6_Witness ==
    /\ pc = "retornado"
    /\ FalhaRecuperacao
    /\ llm # << >>
    /\ FalhaLLM(Ultimo(llm)) # None
    /\ resultado # None
    /\ resultado[1].erro # None

\* C7: a retrieval attempted while the collection is unset fails with an
\* error instead of returning results, and inside the workflow RETRIEVE
\* turns it into a non-null erro with empty documentos_recuperados and empty
\* fontes, never an uncaught exception.
C7_ColecaoNaoCriada ==
    \A i \in 1..Len(busca) :
        busca[i].colecao = None =>
            /\ busca[i].saida.tipo = "raise"
            /\ busca[i].saida.msg = MsgColecaoNaoCriada
            /\ pc # "excecao"
            /\ (pc = "formatar" =>
                    /\ state.erro # None
                    /\ Truthy(state.erro)
                    /\ state.documentos_recuperados = << >>
                    /\ state.fontes = << >>)

C7_Witness ==
    /\ pc = "formatar"
    /\ busca # << >>
    /\ busca[1].colecao = None
    /\ busca[1].saida.tipo = "raise"
    /\ state.erro # None
    /\ state.documentos_recuperados = << >>

\* C8: for every list of candidates returned by the index and every
\* threshold, buscar_documentos returns no record whose similarity
\* (1 - distance) is below the threshold, returns every candidate whose
\* similarity is at or above it, and every returned record has
\* score = round(1 - distance, 4).
C8_LimiarDeSimilaridade ==
    \A i \in 1..Len(busca) :
        (busca[i].remoto # None /\ busca[i].remoto[1].tipo = "ok") =>
            LET res == busca[i].remoto[1].valor
                n == Len(res.documents[1])
                sim(j) == Um - res.distances[1][j]
                docs == busca[i].saida.valor
                Corresponde(d, j) ==
                    /\ d.texto = res.documents[1][j]
                    /\ d.metadata = res.metadatas[1][j]
                    /\ d.score = Round4(sim(j))
            IN  /\ busca[i].saida.tipo = "ok"
                /\ \A k \in 1..Len(docs) :
                      \E j \in 1..n : Corresponde(docs[k], j) /\ sim(j) >= limiar
                /\ \A j \in 1..n :
                      sim(j) >= limiar => \E k \in 1..Len(docs) : Corresponde(docs[k], j)
                /\ Len(docs) = Cardinality({j \in 1..n : sim(j) >= limiar})

\* a candidate below the threshold whose rounded score reaches it is dropped,
\* and one exactly at the threshold is kept
C8_Witness ==
    /\ busca # << >>
    /\ limiar = 70000
    /\ busca[1].remoto # None
    /\ busca[1].remoto[1].tipo = "ok"
    /\ busca[1].remoto[1].valor.distances = << <<30004, 30000, 29995>> >>
    /\ busca[1].saida.tipo = "ok"
    /\ Len(busca[1].saida.valor) = 2
    /\ busca[1].saida.valor[1].score = 70000
    /\ busca[1].saida.valor[2].score = 70000

C10_Projecao(doc) ==
    [documento_nome |-> doc.metadata.documento_nome,
     numero_pagina |-> doc.metadata.numero_pagina,
     score |-> doc.score]

C10_PrimeiraOcorrencia(docs, f) ==
    CHOOSE i \in 1..Len(docs) :
        /\ C10_Projecao(docs[i]) = f
        /\ \A j \in 1..(i - 1) : C10_Projecao(docs[j]) # f

\* C10: after a successful RETRIEVE, fontes has no two equal
\* {documento_nome, numero_pagina, score} records, holds exactly the distinct
\* records projected from the retrieved chunks, and lists them in the order
\* of their first occurrence among the retrieved chunks.
C10_FontesSemDuplicatas ==
    (pc = "formatar" /\ busca # << >> /\ Ultimo(busca).saida.tipo = "ok") =>
        LET docs == state.documentos_recuperados
            f == state.fontes
        IN  /\ docs = Ultimo(busca).saida.valor
            /\ \A a, b \in 1..Len(f) : a # b => f[a] # f[b]
            /\ {f[a] : a \in 1..Len(f)} = {C10_Projecao(docs[i]) : i \in 1..Len(docs)}
            /\ \A a, b \in 1..Len(f) :
                  a < b => C10_PrimeiraOcorrencia(docs, f[a])
                           < C10_PrimeiraOcorrencia(docs, f[b])

C10_Witness ==
    /\ pc = "formatar"
    /\ Len(state.documentos_recuperados) = 3
    /\ Len(state.fontes) = 2
    /\ C10_Projecao(state.documentos_recuperados[1])
         = C10_Projecao(state.documentos_recuperados[3])
    /\ state.fontes[1] = C10_Projecao(state.documentos_recuperados[1])
    /\ state.fontes[2] = C10_Projecao(state.documentos_recuperados[2])

----------------------------------------------------------------------------
(* Python re, the part of it simple_rag/utils/data_masking.py uses.         *)
(* A text is a sequence of one-character tokens.  A pattern is a sequence   *)
(* of elements: a character class with a repetition count (greedy or lazy), *)
(* the word boundary \b, or the lookahead (?=\n|$) under re.MULTILINE.      *)
(* A match is [texto, ini, fins]: the text, the position of the first       *)
(* character matched and, for each element, the position after it.          *)

Digitos == {"0", "1", "2", "3", "4", "5", "6", "7", "8", "9"}

ParaConjunto(seq) == {seq[i] : i \in 1..Len(seq)}

\* [a-zA-Z]: the ASCII letters
AsciiLetras ==
    ParaConjunto(SubSeq(Minusculas, 1, Len(Minusculas) - 1))
    \cup ParaConjunto(SubSeq(Maiusculas, 1, Len(Maiusculas) - 1))

\* [A-Za-zÀ-ÿ] over the alphabet of the model
Letras == ParaConjunto(Minusculas) \cup ParaConjunto(Maiusculas)

\* \w of a str pattern; the ordinal indicator of "Nº" is alphanumeric
Palavra == Letras \cup Digitos \cup {"_", "º"}

UpperChar(c) ==
    IF \E i \in 1..Len(Minusculas) : Minusculas[i] = c
    THEN Maiusculas[CHOOSE i \in 1..Len(Minusculas) : Minusculas[i] = c]
    ELSE c

\* cls{lo,hi}, greedy; hi = None stands for no upper limit
Rep(cls, lo, hi) == [tipo |-> "rep", cls |-> cls, lo |-> lo, hi |-> hi, lazy |-> FALSE]

\* cls+?
MaisLazy(cls) == [tipo |-> "rep", cls |-> cls, lo |-> 1, hi |-> None, lazy |-> TRUE]

\* cls{n}
Vezes(cls, n) == Rep(cls, n, Some(n))

\* a literal string, and the same under re.IGNORECASE
Lit(str) == [i \in 1..Len(str) |-> Vezes({str[i]}, 1)]

LitI(str) == [i \in 1..Len(str) |-> Vezes({LowerChar(str[i]), UpperChar(str[i])}, 1)]

\* \b
B == [tipo |-> "b", cls |-> {}, lo |-> 0, hi |-> None, lazy |-> FALSE]

\* (?=\n|$) with re.MULTILINE
AntesDoFimDaLinha == [tipo |-> "eol", cls |-> {}, lo |-> 0, hi |-> None, lazy |-> FALSE]

\* \b holds at pos: exactly one of t[pos-1], t[pos] is a word character
Fronteira(t, pos) ==
    (pos > 1 /\ t[pos - 1] \in Palavra) # (pos <= Len(t) /\ t[pos] \in Palavra)

\* the element of a one-element set; with a set { e(v) : v \in {x} } it
\* gives e(x) with x evaluated once
Valor(S) == CHOOSE v \in S : TRUE

\* number of characters of cls from pos on, at most lim
Corrida(t, pos, cls, lim) ==
    CHOOSE k \in 0..Min(lim, Len(t) - pos + 1) :
        /\ \A j \in 0..(k - 1) : t[pos + j] \in cls
        /\ k = Min(lim, Len(t) - pos + 1) \/ t[pos + k] \notin cls

\* the preferred one of the ways ok = {<<k, ends>>} an element can match:
\* a greedy element takes the largest count k, a lazy one the least
Preferido(ok, lazy) ==
    IF lazy THEN CHOOSE a \in ok : \A b \in ok : a[1] <= b[1]
    ELSE CHOOSE a \in ok : \A b \in ok : a[1] >= b[1]

\* the backtracking matcher: elements i.. of pat against t from pos on;
\* None, or Some(the end positions of the elements i..)
RECURSIVE Casar(_, _, _, _)
Casar(pat, t, pos, i) ==
    IF i > Len(pat) THEN Some(<< >>)
    ELSE IF pat[i].tipo = "rep"
    THEN Valor({ IF ok = {} THEN None
                 ELSE Valor({ Some(<<pos + r[1]>> \o r[2][1])
                              : r \in {Preferido(ok, pat[i].lazy)} })
                 : ok \in { { r \in { <<k, Casar(pat, t, pos + k, i + 1)>>
                                      : k \in pat[i].lo..
                                            Corrida(t, pos, pat[i].cls,
                                                IF pat[i].hi = None THEN Len(t)
                                                ELSE pat[i].hi[1]) }
                              : r[2] # None } } })
    ELSE IF (pat[i].tipo = "b" /\ Fronteira(t, pos))
            \/ (pat[i].tipo = "eol" /\ (pos > Len(t) \/ t[pos] = "\n"))
    THEN Valor({ IF r = None THEN None ELSE Some(<<pos>> \o r[1])
                 : r \in {Casar(pat, t, pos, i + 1)} })
    ELSE None

\* re.search from pos on: the match at the leftmost position where the
\* pattern matches
Buscar(pat, t, pos) ==
    Valor({ IF ms = {} THEN None
            ELSE Valor({ Some([texto |-> t, ini |-> m[1], fins |-> m[2][1]])
                         : m \in {CHOOSE a \in ms : \A b \in ms : a[1] <= b[1]} })
            : ms \in { { m \in {<<p, Casar(pat, t, p, 1)>> : p \in pos..Len(t)}
                         : m[2] # None } } })

\* match.end()
Fim(m) == m.fins[Len(m.fins)]

\* re.finditer: the leftmost non-overlapping matches from pos on (no pattern
\* of the module matches the empty string)
RECURSIVE Achados(_, _, _)
Achados(pat, t, pos) ==
    Valor({ IF r = None THEN << >> ELSE r \o Achados(pat, t, Fim(r[1]))
            : r \in {Buscar(pat, t, pos)} })

\* the text matched by the elements i..j of the pattern: match.group(n) for
\* the group made of these elements, match.group(0) for all of them
Grupo(m, i, j) ==
    SubSeq(m.texto, IF i = 1 THEN m.ini ELSE m.fins[i - 1], m.fins[j] - 1)

RECURSIVE Concat(_)
Concat(pecas) == IF pecas = << >> THEN << >> ELSE Head(pecas) \o Concat(Tail(pecas))

\* re.sub(pattern, repl, text) with a callable repl
Sub(pattern, Repl(_), text) ==
    Valor({ Valor({ Concat([k \in 1..Len(ms) |->
                        SubSeq(t, IF k = 1 THEN 1 ELSE Fim(ms[k - 1]), ms[k].ini - 1)
                        \o Repl(ms[k])])
                    \o SubSeq(t, IF ms = << >> THEN 1 ELSE Fim(ms[Len(ms)]), Len(t))
                    : ms \in {Achados(pat, t, 1)} })
            : t \in {text}, pat \in {pattern} })

\* mask_char * n
Repetir(c, n) == [i \in 1..n |-> c]

\* s[-n:]
Ultimos(s, n) == SubSeq(s, Len(s) - n + 1, Len(s))

----------------------------------------------------------------------------
(* simple_rag/utils/data_masking.py: the masking rules *)

mask_cpf(text, mc) ==
    LET mask_formatted(m) ==
            LET cpf == Grupo(m, 1, Len(m.fins))
            IN  SubSeq(cpf, 1, 3) \o <<".">> \o Repetir(mc, 3) \o <<".">>
                \o Repetir(mc, 3) \o <<"-">> \o Ultimos(cpf, 2)
        \* \b\d{3}\.\d{3}\.\d{3}-\d{2}\b
        pattern_formatted ==
            <<B, Vezes(Digitos, 3)>> \o Lit(<<".">>) \o <<Vezes(Digitos, 3)>>
            \o Lit(<<".">>) \o <<Vezes(Digitos, 3)>> \o Lit(<<"-">>)
            \o <<Vezes(Digitos, 2), B>>
        mask_plain(m) ==
            LET cpf == Grupo(m, 1, Len(m.fins))
            IN  SubSeq(cpf, 1, 3) \o Repetir(mc, 5) \o Ultimos(cpf, 3)
        \* \b\d{11}\b
        pattern_plain == <<B, Vezes(Digitos, 11), B>>
    IN  Sub(pattern_plain, mask_plain, Sub(pattern_formatted, mask_formatted, text))

mask_rg(text, mc) ==
    LET mask_formatted(m) ==
            LET rg == Grupo(m, 1, Len(m.fins))
            IN  SubSeq(rg, 1, 2) \o <<".">> \o Repetir(mc, 3) \o <<".">>
                \o Repetir(mc, 3) \o <<"-">> \o Ultimos(rg, 1)
        \* \b\d{2}\.\d{3}\.\d{3}-[\dXx]\b
        pattern_formatted ==
            <<B, Vezes(Digitos, 2)>> \o Lit(<<".">>) \o <<Vezes(Digitos, 3)>>
            \o Lit(<<".">>) \o <<Vezes(Digitos, 3)>> \o Lit(<<"-">>)
            \o <<Vezes(Digitos \cup {"X", "x"}, 1), B>>
        mask_plain(m) ==
            LET rg == Grupo(m, 1, Len(m.fins))
            IN  SubSeq(rg, 1, 2) \o Repetir(mc, 5) \o Ultimos(rg, 2)
        \* \b\d{9}\b
        pattern_plain == <<B, Vezes(Digitos, 9), B>>
    IN  Sub(pattern_plain, mask_plain, Sub(pattern_formatted, mask_formatted, text))

mask_cep(text, mc) ==
    LET mask_formatted(m) ==
            SubSeq(Grupo(m, 1, Len(m.fins)), 1, 5) \o <<"-">> \o Repetir(mc, 3)
        \* \b\d{5}-\d{3}\b
        pattern_formatted ==
            <<B, Vezes(Digitos, 5)>> \o Lit(<<"-">>) \o <<Vezes(Digitos, 3), B>>
        mask_plain(m) == SubSeq(Grupo(m, 1, Len(m.fins)), 1, 5) \o Repetir(mc, 3)
        \* \b\d{8}\b
        pattern_plain == <<B, Vezes(Digitos, 8), B>>
    IN  Sub(pattern_plain, mask_plain, Sub(pattern_formatted, mask_formatted, text))

mask_email(text, mc) ==
    LET \* \b([a-zA-Z0-9._%+-]+)(@[a-zA-Z0-9.-]+\.[a-zA-Z]{2,})\b
        pattern ==
            <<B, Rep(AsciiLetras \cup Digitos \cup {".", "_", "%", "+", "-"}, 1, None)>>
            \o Lit(<<"@">>) \o <<Rep(AsciiLetras \cup Digitos \cup {".", "-"}, 1, None)>>
            \o Lit(<<".">>) \o <<Rep(AsciiLetras, 2, None), B>>
        replace_email(m) ==
            LET local_part == Grupo(m, 2, 2)
                domain_part == Grupo(m, 3, 6)
            IN  IF Len(local_part) <= 4 THEN local_part \o domain_part
                ELSE SubSeq(local_part, 1, 4) \o Repetir(mc, Len(local_part) - 4)
                     \o domain_part
    IN  Sub(pattern, replace_email, text)

\* pattern_full, pattern_space, pattern_plain_11, pattern_plain_10 of mask_phone:
\* \(\d{2}\)\s*\d{4,5}-\d{4}, \b\d{2}\s+\d{4,5}-\d{4}\b, \b\d{11}\b, \b\d{10}\b
phone_patterns ==
    << Lit(<<"(">>) \o <<Vezes(Digitos, 2)>> \o Lit(<<")">>)
       \o <<Rep(Espacos, 0, None), Rep(Digitos, 4, Some(5))>> \o Lit(<<"-">>)
       \o <<Vezes(Digitos, 4)>>,
       <<B, Vezes(Digitos, 2), Rep(Espacos, 1, None), Rep(Digitos, 4, Some(5))>>
       \o Lit(<<"-">>) \o <<Vezes(Digitos, 4), B>>,
       <<B, Vezes(Digitos, 11), B>>,
       <<B, Vezes(Digitos, 10), B>> >>

mask_phone(text, mc) ==
    LET \* re.sub(r"\D", "", phone)
        digits(m) == SelectSeq(Grupo(m, 1, Len(m.fins)), LAMBDA c : c \in Digitos)
        replace_phone_full(m) ==
            IF Len(digits(m)) = 11
            THEN <<"(">> \o Repetir(mc, 2) \o <<")", " ">> \o Repetir(mc, 5)
                 \o <<"-">> \o Ultimos(digits(m), 4)
            ELSE <<"(">> \o Repetir(mc, 2) \o <<")", " ">> \o Repetir(mc, 4)
                 \o <<"-">> \o Ultimos(digits(m), 4)
        replace_phone_space(m) ==
            IF Len(digits(m)) = 11
            THEN Repetir(mc, 2) \o <<" ">> \o Repetir(mc, 5) \o <<"-">>
                 \o Ultimos(digits(m), 4)
            ELSE Repetir(mc, 2) \o <<" ">> \o Repetir(mc, 4) \o <<"-">>
                 \o Ultimos(digits(m), 4)
        replace_plain_11(m) == Repetir(mc, 7) \o Ultimos(Grupo(m, 1, Len(m.fins)), 4)
        replace_plain_10(m) == Repetir(mc, 6) \o Ultimos(Grupo(m, 1, Len(m.fins)), 4)
    IN  Sub(phone_patterns[4], replace_plain_10,
            Sub(phone_patterns[3], replace_plain_11,
                Sub(phone_patterns[2], replace_phone_space,
                    Sub(phone_patterns[1], replace_phone_full, text))))

\* a repl given as a str is a template: re.sub processes its backslash
\* escapes, \\ stands for one backslash
RECURSIVE ExpandirTemplate(_)
ExpandirTemplate(repl) ==
    IF repl = << >> THEN << >>
    ELSE IF Len(repl) >= 2 /\ repl[1] = "\\" /\ repl[2] = "\\"
    THEN <<"\\">> \o ExpandirTemplate(SubSeq(repl, 3, Len(repl)))
    ELSE <<repl[1]>> \o ExpandirTemplate(Tail(repl))

mask_birth_date(text, mc) ==
    LET \* \b\d{2}<sep>\d{2}<sep>\d{4}\b: pattern_slash, pattern_dash, pattern_dot
        pattern(sep) ==
            <<B, Vezes(Digitos, 2)>> \o Lit(<<sep>>) \o <<Vezes(Digitos, 2)>>
            \o Lit(<<sep>>) \o <<Vezes(Digitos, 4), B>>
        \* the str repl f"{mask_char * 2}<sep>{mask_char * 2}<sep>{mask_char * 4}"
        repl(sep) ==
            Repetir(mc, 2) \o <<sep>> \o Repetir(mc, 2) \o <<sep>> \o Repetir(mc, 4)
        com(sep, t) == LET r(m) == ExpandirTemplate(repl(sep))
                       IN  Sub(pattern(sep), r, t)
    IN  com(".", com("-", com("/", text)))

mask_prontuario(text, mc) ==
    LET \* the four keywords, each followed by [:\s]+
        prefixos ==
            << LitI(<<"P", "r", "o", "n", "t", "u", "á", "r", "i", "o">>),
               LitI(<<"P", "r", "o", "n", "t">>) \o <<Rep({"."}, 0, Some(1))>>,
               LitI(<<"R", "e", "g", "i", "s", "t", "r", "o">>),
               LitI(<<"N", "º", " ", "d", "o", " ", "p", "r", "o", "n", "t", "u", "á", "r", "i", "o">>) >>
        \* (<keyword>[:\s]+)(\d{6,10})\b, flags=re.IGNORECASE
        patterns ==
            [k \in 1..Len(prefixos) |->
                prefixos[k]
                \o <<Rep({":"} \cup Espacos, 1, None), Rep(Digitos, 6, Some(10)), B>>]
        mask_number(m) ==
            LET n == Len(m.fins)
                prefix == Grupo(m, 1, n - 2)
                number == Grupo(m, n - 1, n - 1)
                last_three == Ultimos(number, 3)
                masked_part == Repetir(mc, Len(number) - 3)
            IN  prefix \o masked_part \o last_three
        passo(k, t) == Sub(patterns[k], mask_number, t)
    IN  passo(4, passo(3, passo(2, passo(1, text))))

\* str.split(): the words of s, separated by runs of whitespace
RECURSIVE Split(_)
Split(s) ==
    Valor({ IF r = << >> THEN << >>
            ELSE Valor({ <<SubSeq(r, 1, n)>> \o Split(SubSeq(r, n + 1, Len(r)))
                         : n \in {CHOOSE k \in 0..Len(r) :
                                      /\ \A j \in 1..k : r[j] \notin Espacos
                                      /\ k = Len(r) \/ r[k + 1] \in Espacos} })
            : r \in {LStrip(s)} })

\* sep.join(parts)
RECURSIVE Join(_, _)
Join(sep, parts) ==
    IF parts = << >> THEN << >>
    ELSE IF Len(parts) = 1 THEN parts[1]
    ELSE parts[1] \o sep \o Join(sep, Tail(parts))

mask_name(text, mc) ==
    LET \* (Nome:\s*)([A-Za-zÀ-ÿ ]+?)(?=\n|$), flags=re.IGNORECASE | re.MULTILINE
        pattern ==
            LitI(<<"N", "o", "m", "e", ":">>)
            \o <<Rep(Espacos, 0, None), MaisLazy(Letras \cup {" "}), AntesDoFimDaLinha>>
        prepositions == {<<"d", "e">>, <<"d", "a">>, <<"d", "o">>, <<"d", "o", "s">>, <<"d", "a", "s">>, <<"e">>}
        mask_full_name(m) ==
            LET prefix == Grupo(m, 1, 6)
                full_name == Strip(Grupo(m, 7, 7))
                name_parts == Split(full_name)
                masked(part) ==
                    IF Lower(part) \in prepositions \/ Len(part) = 1 THEN part
                    ELSE <<part[1]>> \o Repetir(mc, Len(part) - 1)
                masked_parts == [k \in 1..Len(name_parts) |-> masked(name_parts[k])]
            IN  prefix \o Join(<<" ">>, masked_parts)
    IN  Sub(pattern, mask_full_name, text)

Categorias_telefone_antes_do_cpf ==
    <<"nome", "birth_date", "prontuario", "phone", "cpf", "rg", "email", "cep">>

\* the keys of MASKING_FUNCTIONS other than "all", in the order mask_all_pii
\* calls the functions
Categorias ==
    <<"nome", "birth_date", "prontuario", "cpf", "rg", "email", "phone", "cep">>

\* MASKING_FUNCTIONS[pii_type](text, mask_char)
MASKING_FUNCTIONS(pii_type, text, mc) ==
    CASE pii_type = "nome" -> mask_name(text, mc)
      [] pii_type = "cpf" -> mask_cpf(text, mc)
      [] pii_type = "rg" -> mask_rg(text, mc)
      [] pii_type = "cep" -> mask_cep(text, mc)
      [] pii_type = "email" -> mask_email(text, mc)
      [] pii_type = "phone" -> mask_phone(text, mc)
      [] pii_type = "birth_date" -> mask_birth_date(text, mc)
      [] pii_type = "prontuario" -> mask_prontuario(text, mc)

\* the loop of mask_pii over pii_types, from its element i on
RECURSIVE AplicarTipos(_, _, _, _)
AplicarTipos(pii_types, i, masked_text, mc) ==
    IF i > Len(pii_types) THEN masked_text
    ELSE AplicarTipos(pii_types, i + 1,
             IF pii_types[i] \in ParaConjunto(Categorias)
             THEN MASKING_FUNCTIONS(pii_types[i], masked_text, mc)
             ELSE masked_text,
             mc)

\* masked_text of mask_all_pii after the call of the rule `regra`
AposRegra(regra, text, mc) ==
    AplicarTipos(SubSeq(Categorias, 1, CHOOSE k \in 1..Len(Categorias) :
                                           Categorias[k] = regra),
                 1, text, mc)

\* mask_all_pii without custom_patterns: the eight rules, one after the other
mask_all_pii(text, mc) == AposRegra(Categorias[Len(Categorias)], text, mc)

\* mask_pii(text, pii_types, mask_char); pii_types is None or Some(list)
mask_pii(text, pii_types, mc) ==
    IF pii_types = None \/ \E i \in 1..Len(pii_types[1]) : pii_types[1][i] = "all"
    THEN mask_all_pii(text, mc)
    ELSE AplicarTipos(pii_types[1], 1, text, mc)

----------------------------------------------------------------------------
(* The masking library in use: a caller holds a text and a mask character,  *)
(* calls one function of data_masking.py on it, and may pass what           *)
(* mask_all_pii returned back in to mask_all_pii.                           *)

MaxFragmentos == 2

\* items in the formats the docstrings of the module list, and separators
Fragmentos ==
    { <<"1", "2", "3", "4", "5", "6", "7", "8", "9", "0", "1">>,
      <<"1", "2", "3", "4", "5", "6", "7", "8">>,
      <<"9", "0", "1", ".", "4", "5", "6", ".", "7", "8", "9", "-", "0", "0">>,
      <<"1", "2", "3", "4", "5", "-", "6", "7", "8">>,
      <<"(", "1", "1", ")", "9", "8", "7", "6", "5", "-", "4", "3", "2", "1">>,
      <<"N", "o", "m", "e", ":", " ", "A", "n", "a", " ", " ", "S", "i", "l", "v", "a">>,
      <<"1", "5", "/", "0", "3", "/", "1", "9", "5", "3">>,
      <<"j", "o", "a", "o", "s", "i", "l", "v", "a", "@", "a", "b", ".", "c", "o", "m">>,
      <<"P", "r", "o", "n", "t", "u", "á", "r", "i", "o", ":", " ", "1", "2", "3", "4", "5", "6", "7">>,
      <<"1", "2", ".", "3", "4", "5", ".", "6", "7", "8", "-", "9">>,
      <<"\n">> }

RECURSIVE TextosDe(_)
TextosDe(n) ==
    IF n = 0 THEN {<< >>}
    ELSE TextosDe(n - 1) \cup {t \o f : t \in TextosDe(n - 1), f \in Fragmentos}

Textos == TextosDe(MaxFragmentos)

\* the default mask character and the backslash
MaskChars == {"*", "\\"}

\* values of the pii_types argument of mask_pii
Pedidos ==
    { None, Some(<< >>), Some(<<"cpf", "phone">>), Some(<<"phone", "cpf">>),
      Some(<<"cep", "all">>), Some(<<"telefone", "email">>) }

InitMasking ==
    /\ texto \in Textos
    /\ mask_char \in MaskChars
    /\ origem = None
    /\ chamada = None
    /\ mascarado = None
    /\ collection = None
    /\ limiar = retrieval_similarity_threshold
    /\ pc = "idle"
    /\ state = None
    /\ resultado = None
    /\ executados = << >>
    /\ busca = << >>
    /\ llm = << >>
    /\ gerados = << >>
    /\ armazenados = {}
    /\ operacao = << >>
    /\ uploaded_files = << >>
    /\ progress_callback = "nenhum"
    /\ lote = [pc |-> "parado"]
    /\ eventos = << >>
    /\ OutrosParados

\* mask_pii(texto, pii_types, mask_char)
MaskPii ==
    /\ origem = None
    /\ chamada = None
    /\ \E pii_types \in Pedidos :
          /\ chamada' = Some([func |-> "mask_pii", pii_types |-> pii_types])
          /\ mascarado' = Some(mask_pii(texto, pii_types, mask_char))
    /\ UNCHANGED <<texto, mask_char, origem>>
    /\ UNCHANGED vars_workflow
    /\ UNCHANGED vars_ingestao
    /\ UNCHANGED vars_outros

\* mask_all_pii(texto, mask_char)
MaskAllPii ==
    /\ chamada = None
    /\ chamada' = Some([func |-> "all", pii_types |-> None])
    /\ mascarado' = Some(mask_all_pii(texto, mask_char))
    /\ UNCHANGED <<texto, mask_char, origem>>
    /\ UNCHANGED vars_workflow
    /\ UNCHANGED vars_ingestao
    /\ UNCHANGED vars_outros

\* one masking rule: mask_name, mask_cpf, ... (texto, mask_char)
MaskRegra ==
    /\ origem = None
    /\ chamada = None
    /\ \E pii_type \in ParaConjunto(Categorias) :
          /\ chamada' = Some([func |-> pii_type, pii_types |-> None])
          /\ mascarado' = Some(MASKING_FUNCTIONS(pii_type, texto, mask_char))
    /\ UNCHANGED <<texto, mask_char, origem>>
    /\ UNCHANGED vars_workflow
    /\ UNCHANGED vars_ingestao
    /\ UNCHANGED vars_outros

Remascarar_o_texto_original ==
    /\ origem = None
    /\ chamada # None
    /\ chamada[1].func = "all"
    /\ texto' = texto
    /\ origem' = Some(texto)
    /\ chamada' = None
    /\ mascarado' = None
    /\ UNCHANGED mask_char
    /\ UNCHANGED vars_workflow
    /\ UNCHANGED vars_ingestao
    /\ UNCHANGED vars_outros

\* the caller passes the text mask_all_pii returned back in
Remascarar ==
    /\ origem = None
    /\ chamada # None
    /\ chamada[1].func = "all"
    /\ texto' = mascarado[1]
    /\ origem' = Some(texto)
    /\ chamada' = None
    /\ mascarado' = None
    /\ UNCHANGED mask_char
    /\ UNCHANGED vars_workflow
    /\ UNCHANGED vars_ingestao
    /\ UNCHANGED vars_outros

NextMasking ==
    \/ MaskPii
    \/ MaskAllPii
    \/ MaskRegra
    \/ Remascarar

SpecMasking == InitMasking /\ [][NextMasking]_vars

----------------------------------------------------------------------------
(* Claims about the masking library *)

\* the last call on texto was func
Chamou(func) == chamada # None /\ chamada[1].func = func

\* C11: mask_pii applies the requested categories in the canonical order
\* whatever the order of the caller's list: two lists naming the same set of
\* categories give the same output for every text.
C11_OrdemDaLista ==
    \A outra \in Pedidos :
        ( /\ Chamou("mask_pii")
          /\ chamada[1].pii_types # None
          /\ outra # None
          /\ ParaConjunto(outra[1]) = ParaConjunto(chamada[1].pii_types[1]) )
        => mask_pii(texto, outra, mask_char) = mascarado[1]

\* C12: mask_pii with an empty list or with no list returns what mask_all_pii
\* returns, for every text.
C12_ListaVaziaOuAusente ==
    ( /\ Chamou("mask_pii")
      /\ chamada[1].pii_types \in {None, Some(<< >>)} )
    => mascarado[1] = mask_all_pii(texto, mask_char)

\* the positions of t where a bare run of exactly 11 digits starts
C13_Corridas11(t) ==
    {p \in 1..(Len(t) - 10) :
        /\ \A j \in 0..10 : t[p + j] \in Digitos
        /\ Fronteira(t, p)
        /\ Fronteira(t, p + 11)}

\* the run of t at p as the national-id rule masks it: 3 kept, 5 masked, 3 kept
C13_Mascarada(t, p, mc) ==
    SubSeq(t, p, p + 2) \o Repetir(mc, 5) \o SubSeq(t, p + 8, p + 10)

\* five digits and a hyphen stand directly before position p of t
C13_AposCepCortado(t, p) ==
    /\ p > 6
    /\ t[p - 1] = "-"
    /\ \A j \in 2..6 : t[p - j] \in Digitos
    /\ Fronteira(t, p - 6)

\* in s there are at least as many occurrences of the masked form of the run
\* at p as t has runs of these digits among the positions ps
C13_Mantidas(t, p, ps, s, mc) ==
    Cardinality({q \in 1..(Len(s) - 10) :
                    SubSeq(s, q, q + 10) = C13_Mascarada(t, p, mc)})
    >= Cardinality({q \in ps : SubSeq(t, q, q + 10) = SubSeq(t, p, p + 10)})

\* C13 (as stated): under mask_all_pii every bare run of exactly 11 digits is
\* masked by the national-id rule as 3 kept + 5 masked + 3 kept, and neither
\* the phone rule nor any later rule changes it: the text returned holds it.
C13_NenhumaRegraPosterior ==
    Chamou("all") =>
        \A p \in C13_Corridas11(texto) :
            /\ C13_Mantidas(texto, p, C13_Corridas11(texto),
                            AposRegra("cpf", texto, mask_char), mask_char)
            /\ C13_Mantidas(texto, p, C13_Corridas11(texto),
                            mascarado[1], mask_char)

\* C13 (amended): under mask_all_pii every bare run of exactly 11 digits is
\* masked by the national-id rule as 3 kept + 5 masked + 3 kept and is still
\* so after the phone rule; the text returned holds it too unless five digits
\* and a hyphen stand directly before the run (the postal-code rule then takes
\* the first three digits of the run for the end of a postal code).
C13_MascaradaComoCpf ==
    Chamou("all") =>
        \A p \in C13_Corridas11(texto) :
            /\ C13_Mantidas(texto, p, C13_Corridas11(texto),
                            AposRegra("cpf", texto, mask_char), mask_char)
            /\ C13_Mantidas(texto, p, C13_Corridas11(texto),
                            AposRegra("phone", texto, mask_char), mask_char)
            /\ C13_Mantidas(texto, p,
                            {q \in C13_Corridas11(texto) :
                                ~C13_AposCepCortado(texto, q)},
                            mascarado[1], mask_char)

\* mask_all_pii returned for a text with a bare 11-digit run and more: the
\* run is in the text returned, masked as a national id
C13_Witness ==
    /\ Chamou("all")
    /\ Len(texto) > 11
    /\ \E p \in C13_Corridas11(texto) :
          /\ ~C13_AposCepCortado(texto, p)
          /\ \E q \in 1..(Len(mascarado[1]) - 10) :
                SubSeq(mascarado[1], q, q + 10) = C13_Mascarada(texto, p, mask_char)

\* texts of at most n fragments in which a line break stands between any two
\* items, each with the flag "its last fragment is an item"
RECURSIVE C14_UmPorLinha(_)
C14_UmPorLinha(n) ==
    IF n = 0 THEN {<< << >>, FALSE >>}
    ELSE C14_UmPorLinha(n - 1)
         \cup {<<q[1][1] \o q[2], q[2] # <<"\n">> >> :
                  q \in {r \in C14_UmPorLinha(n - 1) \X Fragmentos :
                            r[2] = <<"\n">> \/ ~r[1][2]}}

C14_Separados == {x[1] : x \in C14_UmPorLinha(MaxFragmentos)}

C15_MesmoComprimento ==
    \A f \in {"cpf", "rg", "cep", "birth_date", "prontuario"} :
        Chamou(f) => Len(mascarado[1]) = Len(texto)

\* C16: mask_name returns a text of the length of its input in which every
\* position either holds the input's character or holds the mask character
\* where the input had a letter.
C16_NomeSoTrocaLetras ==
    Chamou("nome") =>
        /\ Len(mascarado[1]) = Len(texto)
        /\ \A i \in 1..Len(texto) :
               \/ mascarado[1][i] = texto[i]
               \/ mascarado[1][i] = mask_char /\ texto[i] \in Letras

\* the text is one phone number in a format mask_phone accepts
C17_FormatoAceito(t) ==
    \E k \in 1..Len(phone_patterns) :
        LET m == Buscar(phone_patterns[k], t, 1)
        IN  m # None /\ m[1].ini = 1 /\ Fim(m[1]) = Len(t) + 1

\* C17: for a phone number in an accepted format, mask_phone returns a text
\* of the same length in which every separator stays at its position, the
\* last 4 digits are kept and every digit before them is the mask character.
C17_TelefoneMantemLargura ==
    (Chamou("phone") /\ C17_FormatoAceito(texto)) =>
        /\ Len(mascarado[1]) = Len(texto)
        /\ \A i \in 1..Len(texto) :
               LET depois == Cardinality({j \in i..Len(texto) : texto[j] \in Digitos})
               IN  mascarado[1][i] =
                       IF texto[i] \in Digitos /\ depois > 4 THEN mask_char ELSE texto[i]

-----------------------------------------------------------------------------
(* llm_rag/pdf_processor.py: the ids of the chunks *)

\* the answer workflow and the masking library at rest
WorkflowParado ==
    /\ collection = None
    /\ limiar = retrieval_similarity_threshold
    /\ pc = "idle"
    /\ state = None
    /\ resultado = None
    /\ executados = << >>
    /\ busca = << >>
    /\ llm = << >>

MaskingParado ==
    /\ texto = << >>
    /\ mask_char = "*"
    /\ origem = None
    /\ chamada = None
    /\ mascarado = None

\* str(n) of an int n >= 0
RECURSIVE Str(_)
Str(n) ==
    LET d == <<"0", "1", "2", "3", "4", "5", "6", "7", "8", "9">>[(n % 10) + 1]
    IN  IF n < 10 THEN <<d>> ELSE Str(n \div 10) \o <<d>>

\* the number of characters of the chunk that enter its id
Corte == 100

\* hashlib.md5(conteudo.encode()).hexdigest(): the digest is taken as
\* collision-free and stands for the text it was computed from
md5_hexdigest(conteudo) == <<"md5", conteudo>>

\* the id computed from the whole text of the chunk
_gerar_chunk_id_sem_corte(text, documento_nome, indice) ==
    md5_hexdigest(documento_nome \o <<"_">> \o Str(indice) \o <<"_">> \o text)

\* PDFProcessor._gerar_chunk_id(texto, documento_nome, indice)
_gerar_chunk_id(text, documento_nome, indice) ==
    md5_hexdigest(documento_nome \o <<"_">> \o Str(indice) \o <<"_">>
                  \o SubSeq(text, 1, Min(Corte, Len(text))))

\* the longest tail the texts of the calls carry around character Corte
MaxSufixo == 2

RECURSIVE Sufixos(_)
Sufixos(n) ==
    IF n = 0 THEN {<< >>}
    ELSE Sufixos(n - 1)
         \cup {t \o <<c>> : t \in {u \in Sufixos(n - 1) : Len(u) = n - 1}, c \in {"a", "b"}}

\* chunk texts: short ones, one that starts with a number and an
\* underscore, and ones that end shortly before, at, or shortly after
\* character Corte
TextosDeChunk ==
    {<< >>, <<"a">>, <<"b">>, <<"1", "2", "_", "a">>}
    \cup {Repetir("a", Corte - 1) \o suf : suf \in Sufixos(MaxSufixo)}

DocumentoIds == {<<"d">>, <<"d", "_", "1">>}

Indices == {1, 12}

InitChunkId ==
    /\ gerados = << >>
    /\ armazenados = {}
    /\ operacao = << >>
    /\ uploaded_files = << >>
    /\ progress_callback = "nenhum"
    /\ lote = [pc |-> "parado"]
    /\ eventos = << >>
    /\ WorkflowParado
    /\ MaskingParado
    /\ OutrosParados

\* one call of _gerar_chunk_id, as processar_pdf makes for each chunk
GerarChunkId ==
    /\ \E t \in TextosDeChunk, d \in DocumentoIds, i \in Indices :
           LET r == [texto |-> t, documento_nome |-> d, indice |-> i,
                     id |-> _gerar_chunk_id(t, d, i)]
           IN  gerados' = IF gerados = << >> THEN <<r>> ELSE <<gerados[Len(gerados)], r>>
    /\ UNCHANGED <<armazenados, operacao>>
    /\ UNCHANGED vars_lote
    /\ UNCHANGED vars_workflow
    /\ UNCHANGED vars_masking
    /\ UNCHANGED vars_outros

SpecChunkId == InitChunkId /\ [][GerarChunkId]_vars

\* two texts agree on their first Corte characters
C18_Concordam(a, b) ==
    \A k \in 1..Corte :
        /\ k <= Len(a) <=> k <= Len(b)
        /\ k <= Len(a) => a[k] = b[k]

C30_IdSoParaMesmoTriplo ==
    \A i, j \in 1..Len(gerados) :
        gerados[i].id = gerados[j].id =>
            /\ gerados[i].documento_nome = gerados[j].documento_nome
            /\ gerados[i].indice = gerados[j].indice
            /\ C18_Concordam(gerados[i].texto, gerados[j].texto)

-----------------------------------------------------------------------------
(* llm_rag/pdf_processor.py and llm_rag/vector_store.py: indexing a PDF *)

\* the PDF files: the document id (the stem of the file name) and, for each
\* page with text, the chunks text_splitter.split_text cuts the page into.
\* Two files are revisions of one document whose only chunk differs after
\* character Corte.
Pdfs ==
    LET longo == Repetir("a", Corte)
    IN  { [documento_id |-> <<"d">>, paginas |-> <<<<longo \o <<"a">>>>>>],
          [documento_id |-> <<"d">>, paginas |-> <<<<longo \o <<"b">>>>>>],
          [documento_id |-> <<"e">>, paginas |-> <<<<<<"a">>>>, <<<<"b">>, <<"a">>>>>>],
          [documento_id |-> <<"e">>, paginas |-> <<<<<<"b">>>>>>],
          [documento_id |-> <<"f">>, paginas |-> << >>] }

\* PDFProcessor.processar_pdf from page num_pagina on, chunk_index being the
\* number of chunks made so far
RECURSIVE ProcessarPaginas(_, _, _)
ProcessarPaginas(pdf, num_pagina, chunk_index) ==
    IF num_pagina > Len(pdf.paginas) THEN << >>
    ELSE LET texto_chunks == pdf.paginas[num_pagina]
         IN  [k \in 1..Len(texto_chunks) |->
                 [texto |-> texto_chunks[k],
                  metadata |-> [documento_id |-> pdf.documento_id,
                                numero_pagina |-> num_pagina,
                                total_paginas |-> Len(pdf.paginas),
                                chunk_index |-> chunk_index + k - 1],
                  chunk_id |-> _gerar_chunk_id(texto_chunks[k], pdf.documento_id,
                                               chunk_index + k - 1)]]
             \o ProcessarPaginas(pdf, num_pagina + 1, chunk_index + Len(texto_chunks))

processar_pdf(pdf) == ProcessarPaginas(pdf, 1, 0)

\* collection.add(embeddings, documents, metadatas, ids) of the remote
\* service: a record is stored under each id the collection does not hold
\* yet, and an id it already holds keeps its record
collection_add(records, textos, metadatas, ids) ==
    records \cup
    { [id |-> ids[k], documento |-> textos[k], metadata |-> metadatas[k]]
      : k \in {j \in 1..Len(ids) : \A r \in records : r.id # ids[j]} }

\* adicionar_documentos with ids made from the size of the collection
adicionar_documentos_ids_novos(col, records, chunks) ==
    IF col = None THEN [retorno |-> Raise(MsgColecaoNaoCriada), records |-> records,
                        chamadas |-> << >>]
    ELSE IF chunks = << >> THEN [retorno |-> Ok(0), records |-> records,
                                 chamadas |-> << >>]
    ELSE [retorno |-> Ok(Len(chunks)),
          chamadas |-> <<"add">>,
          records |-> collection_add(records,
                          [k \in 1..Len(chunks) |-> chunks[k].texto],
                          [k \in 1..Len(chunks) |-> chunks[k].metadata],
                          [k \in 1..Len(chunks) |-> <<Cardinality(records), k>>])]

\* VectorStore.adicionar_documentos(chunks): what it returns or raises, the
\* records of the collection after it, and the calls made to the remote
\* service
adicionar_documentos(col, records, chunks) ==
    IF col = None THEN [retorno |-> Raise(MsgColecaoNaoCriada), records |-> records,
                        chamadas |-> << >>]
    ELSE IF chunks = << >> THEN [retorno |-> Ok(0), records |-> records,
                                 chamadas |-> << >>]
    ELSE [retorno |-> Ok(Len(chunks)),
          chamadas |-> <<"add">>,
          records |-> collection_add(records,
                          [k \in 1..Len(chunks) |-> chunks[k].texto],
                          [k \in 1..Len(chunks) |-> chunks[k].metadata],
                          [k \in 1..Len(chunks) |-> chunks[k].chunk_id])]

\* VectorStore.deletar_documento(documento_id)
deletar_documento(col, records, documento_id) ==
    IF col = None THEN [retorno |-> Raise(MsgColecaoNaoCriada), records |-> records,
                        chamadas |-> << >>]
    ELSE LET ids == {r.id : r \in {q \in records : q.metadata.documento_id = documento_id}}
         IN  [retorno |-> Ok(Cardinality(ids)),
              records |-> {r \in records : r.id \notin ids},
              chamadas |-> IF ids # {} THEN <<"get", "delete">> ELSE <<"get">>]

\* VectorStore.buscar_documentos(consulta), with what collection.query
\* answers
buscar_na_colecao(col, records, remoto, lim) ==
    [retorno |-> buscar_documentos(col, remoto, lim),
     records |-> records,
     chamadas |-> IF col = None THEN << >> ELSE <<"query">>]

\* VectorStore.listar_documentos(): one entry for each documento_id, with
\* the number of its chunks
listar_documentos(col, records, remoto_ok) ==
    IF col = None THEN [retorno |-> Raise(MsgColecaoNaoCriada), records |-> records,
                        chamadas |-> << >>]
    ELSE IF ~ remoto_ok
    THEN [retorno |-> Raise(<<"Connection refused">>), records |-> records,
          chamadas |-> <<"get">>]
    ELSE [retorno |->
              Ok({ [documento_id |-> d,
                    num_chunks |-> Cardinality({r \in records : r.metadata.documento_id = d})]
                   : d \in {r.metadata.documento_id : r \in records} }),
          records |-> records,
          chamadas |-> <<"get">>]

\* VectorStore.contar_documentos()
contar_documentos(col, records, remoto_ok) ==
    IF col = None THEN [retorno |-> Raise(MsgColecaoNaoCriada), records |-> records,
                        chamadas |-> << >>]
    ELSE IF ~ remoto_ok
    THEN [retorno |-> Raise(<<"Connection refused">>), records |-> records,
          chamadas |-> <<"count">>]
    ELSE [retorno |-> Ok(Cardinality(records)), records |-> records,
          chamadas |-> <<"count">>]

\* variant: the collection is deleted and not created again
limpar_colecao_sem_recriar(col, records, falha) ==
    IF col = None
    THEN [retorno |-> Raise(MsgColecaoNaoCriada), records |-> records,
          collection |-> col, chamadas |-> << >>]
    ELSE IF falha = "delete_collection"
    THEN [retorno |-> Raise(<<"Connection refused">>), records |-> records,
          collection |-> col, chamadas |-> <<"delete_collection">>]
    ELSE [retorno |-> Ok(None), records |-> {},
          collection |-> None, chamadas |-> <<"delete_collection">>]

\* VectorStore.limpar_colecao(): the collection is deleted and one of the
\* same name is created; falha says which of the two remote calls raises,
\* if any.  The result has self.collection after the call as well.
limpar_colecao(col, records, falha) ==
    IF col = None
    THEN [retorno |-> Raise(MsgColecaoNaoCriada), records |-> records,
          collection |-> col, chamadas |-> << >>]
    ELSE IF falha = "delete_collection"
    THEN [retorno |-> Raise(<<"Connection refused">>), records |-> records,
          collection |-> col, chamadas |-> <<"delete_collection">>]
    ELSE LET nome_colecao == col[1]
         IN  [retorno |-> IF falha = "get_or_create_collection"
                          THEN Raise(<<"Connection refused">>) ELSE Ok(None),
              records |-> {},
              collection |-> criar_colecao(col, nome_colecao,
                                           falha # "get_or_create_collection"),
              chamadas |-> <<"delete_collection", "get_or_create_collection">>]

InitIndexacao ==
    /\ gerados = << >>
    /\ armazenados = {}
    /\ operacao = None
    /\ uploaded_files = << >>
    /\ progress_callback = "nenhum"
    /\ lote = [pc |-> "parado"]
    /\ eventos = << >>
    /\ WorkflowParado
    /\ MaskingParado
    /\ OutrosParados

\* the bit of the record of a call: it changes with every call
Alterna == IF operacao = None THEN 0 ELSE 1 - operacao[1].alterna

\* DocumentManager.indexar_pdf: processar_pdf, then adicionar_documentos.
\* operacao counts the consecutive calls for the same file and keeps the
\* records the first of them left.
IndexarPdf ==
    /\ pc = "idle"
    /\ \E pdf \in Pdfs :
          LET r == adicionar_documentos(collection, armazenados, processar_pdf(pdf))
              repetida == operacao # None /\ operacao[1].op = "indexar_pdf"
                          /\ operacao[1].arg = pdf
          IN  /\ armazenados' = r.records
              /\ operacao' = Some([op |-> "indexar_pdf", arg |-> pdf, retorno |-> r.retorno,
                                   chamadas |-> r.chamadas,
                                   antes |-> Cardinality(armazenados),
                                   alterna |-> Alterna,
                                   vezes |-> IF repetida THEN 2 ELSE 1,
                                   primeira |-> IF repetida THEN operacao[1].primeira
                                                ELSE [retorno |-> r.retorno,
                                                      records |-> r.records]])
    /\ UNCHANGED gerados
    /\ UNCHANGED vars_lote
    /\ UNCHANGED vars_workflow
    /\ UNCHANGED vars_masking
    /\ UNCHANGED vars_outros

\* DocumentManager.deletar_documento
DeletarDocumento ==
    /\ pc = "idle"
    /\ \E pdf \in Pdfs :
          LET r == deletar_documento(collection, armazenados, pdf.documento_id)
          IN  /\ armazenados' = r.records
              /\ operacao' = Some([op |-> "deletar_documento", arg |-> pdf.documento_id,
                                   chamadas |-> r.chamadas,
                                   antes |-> Cardinality(armazenados),
                                   alterna |-> Alterna,
                                   retorno |-> r.retorno, vezes |-> 1,
                                   primeira |-> [retorno |-> r.retorno,
                                                 records |-> r.records]])
    /\ UNCHANGED gerados
    /\ UNCHANGED vars_lote
    /\ UNCHANGED vars_workflow
    /\ UNCHANGED vars_masking
    /\ UNCHANGED vars_outros

\* the record of a call that is not an indexing
Chamada(op, r, n) ==
    Some([op |-> op, arg |-> << >>, retorno |-> r.retorno, chamadas |-> r.chamadas,
          antes |-> n, alterna |-> Alterna, vezes |-> 1,
          primeira |-> [retorno |-> r.retorno, records |-> r.records]])

\* vector_store.buscar_documentos, listar_documentos or contar_documentos
\* is called
ConsultarColecao ==
    /\ pc = "idle"
    /\ \E r \in { buscar_na_colecao(collection, armazenados, remoto, limiar)
                     : remoto \in {Ok(Resultados(<< >>)), Raise(<<"Connection refused">>)} } :
          operacao' = Chamada("buscar_documentos", r, Cardinality(armazenados))
       \/ \E remoto_ok \in BOOLEAN :
             \/ operacao' = Chamada("listar_documentos",
                                    listar_documentos(collection, armazenados, remoto_ok),
                                    Cardinality(armazenados))
             \/ operacao' = Chamada("contar_documentos",
                                    contar_documentos(collection, armazenados, remoto_ok),
                                    Cardinality(armazenados))
    /\ UNCHANGED <<gerados, armazenados>>
    /\ UNCHANGED vars_lote
    /\ UNCHANGED vars_workflow
    /\ UNCHANGED vars_masking
    /\ UNCHANGED vars_outros

\* DocumentManager.limpar_todos_documentos -> vector_store.limpar_colecao()
LimparColecao ==
    /\ pc = "idle"
    /\ \E falha \in {"nenhuma", "delete_collection", "get_or_create_collection"} :
          LET r == limpar_colecao(collection, armazenados, falha)
          IN  /\ armazenados' = r.records
              /\ collection' = r.collection
              /\ operacao' = Chamada("limpar_colecao", r, Cardinality(armazenados))
    /\ UNCHANGED <<limiar, pc, state, resultado, executados, busca, llm>>
    /\ UNCHANGED gerados
    /\ UNCHANGED vars_lote
    /\ UNCHANGED vars_masking
    /\ UNCHANGED vars_outros

NextIndexacao ==
    \/ CriarColecao
    \/ IndexarPdf
    \/ DeletarDocumento
    \/ ConsultarColecao
    \/ LimparColecao

SpecIndexacao == InitIndexacao /\ [][NextIndexacao]_vars

-----------------------------------------------------------------------------
(* simple_rag/utils/pdf_processor.py: a batch of uploaded PDF files *)

\* the most files in a batch
MaxArquivos == 3

\* what loading, splitting and indexing a file runs into: chunks indexed,
\* a PDF without pages, or an exception of the loader or of the vectorstore
Desfechos ==
    { [tipo |-> "ok", chunks |-> 1, msg |-> ""],
      [tipo |-> "ok", chunks |-> 2, msg |-> ""],
      [tipo |-> "vazio", chunks |-> 0, msg |-> ""],
      [tipo |-> "excecao", chunks |-> 0, msg |-> "EOF marker not found"] }

Arquivos == [name : {"a.pdf", "b.pdf"}, desfecho : Desfechos]

RECURSIVE Lotes(_)
Lotes(n) ==
    IF n = 0 THEN {<< >>}
    ELSE Lotes(n - 1)
         \cup {b \o <<f>> : b \in {c \in Lotes(n - 1) : Len(c) = n - 1}, f \in Arquivos}

\* _process_single_pdf with no try around its body
_process_single_pdf_sem_try(uploaded_file) ==
    IF uploaded_file.desfecho.tipo = "excecao" THEN Raise(uploaded_file.desfecho.msg)
    ELSE IF uploaded_file.desfecho.tipo = "vazio"
    THEN Ok([chunks_added |-> 0,
             error |-> Some(uploaded_file.name
                            \o ": PDF is empty or contains no extractable text")])
    ELSE Ok([chunks_added |-> uploaded_file.desfecho.chunks, error |-> None])

\* _process_single_pdf(uploaded_file, vectorstore): (chunks_added, error)
_process_single_pdf(uploaded_file) ==
    IF uploaded_file.desfecho.tipo = "excecao"
    THEN Ok([chunks_added |-> 0,
             error |-> Some(uploaded_file.name \o ": " \o uploaded_file.desfecho.msg)])
    ELSE IF uploaded_file.desfecho.tipo = "vazio"
    THEN Ok([chunks_added |-> 0,
             error |-> Some(uploaded_file.name
                            \o ": PDF is empty or contains no extractable text")])
    ELSE Ok([chunks_added |-> uploaded_file.desfecho.chunks, error |-> None])

InitLote ==
    /\ uploaded_files \in Lotes(MaxArquivos)
    /\ progress_callback \in {"nenhum", "retorna", "levanta"}
    /\ lote = [pc |-> "inicio", idx |-> 0, total_chunks |-> 0, errors |-> << >>,
               retorno |-> None]
    /\ eventos = << >>
    /\ gerados = << >>
    /\ armazenados = {}
    /\ operacao = None
    /\ WorkflowParado
    /\ MaskingParado
    /\ OutrosParados

\* process_pdf_files up to the loop, and its return when the batch is empty
IniciarLote ==
    /\ lote.pc = "inicio"
    /\ lote' = IF uploaded_files = << >>
               THEN [lote EXCEPT !.pc = "retornado",
                                 !.retorno = Some(<<lote.total_chunks, lote.errors>>)]
               ELSE [lote EXCEPT !.pc = "progresso", !.idx = 1]
    /\ UNCHANGED <<uploaded_files, progress_callback, eventos>>
    /\ UNCHANGED <<gerados, armazenados, operacao>>
    /\ UNCHANGED vars_workflow
    /\ UNCHANGED vars_masking
    /\ UNCHANGED vars_outros

\* the progress reported for the first file of the batch only
AvisarProgresso_so_no_primeiro ==
    /\ lote.pc = "progresso"
    /\ \/ /\ progress_callback = "nenhum" \/ (progress_callback = "retorna" /\ lote.idx > 1)
          /\ lote' = [lote EXCEPT !.pc = "arquivo"]
          /\ UNCHANGED eventos
       \/ /\ progress_callback = "retorna" /\ lote.idx = 1
          /\ lote' = [lote EXCEPT !.pc = "arquivo"]
          /\ eventos' = Append(eventos, [tipo |-> "progresso", idx |-> lote.idx])
       \/ /\ progress_callback = "levanta"
          /\ lote' = [lote EXCEPT !.pc = "excecao"]
          /\ UNCHANGED eventos
    /\ UNCHANGED <<uploaded_files, progress_callback>>
    /\ UNCHANGED <<gerados, armazenados, operacao>>
    /\ UNCHANGED vars_workflow
    /\ UNCHANGED vars_masking
    /\ UNCHANGED vars_outros

\* the top of the loop body: if progress_callback: await progress_callback(...)
AvisarProgresso ==
    /\ lote.pc = "progresso"
    /\ \/ /\ progress_callback = "nenhum"
          /\ lote' = [lote EXCEPT !.pc = "arquivo"]
          /\ UNCHANGED eventos
       \/ /\ progress_callback = "retorna"
          /\ lote' = [lote EXCEPT !.pc = "arquivo"]
          /\ eventos' = Append(eventos, [tipo |-> "progresso", idx |-> lote.idx])
       \/ /\ progress_callback = "levanta"
          /\ lote' = [lote EXCEPT !.pc = "excecao"]
          /\ UNCHANGED eventos
    /\ UNCHANGED <<uploaded_files, progress_callback>>
    /\ UNCHANGED <<gerados, armazenados, operacao>>
    /\ UNCHANGED vars_workflow
    /\ UNCHANGED vars_masking
    /\ UNCHANGED vars_outros

\* the rest of the loop body: await asyncio.to_thread(_process_single_pdf,
\* ...), the totals, and the return after the last file
ProcessarArquivo ==
    /\ lote.pc = "arquivo"
    /\ LET r == _process_single_pdf(uploaded_files[lote.idx])
           total_chunks == lote.total_chunks + r.valor.chunks_added
           errors == IF r.valor.error # None /\ r.valor.error[1] # ""
                     THEN Append(lote.errors, r.valor.error[1]) ELSE lote.errors
       IN  lote' = IF r.tipo = "raise" THEN [lote EXCEPT !.pc = "excecao"]
                   ELSE IF lote.idx = Len(uploaded_files)
                   THEN [lote EXCEPT !.pc = "retornado", !.total_chunks = total_chunks,
                                     !.errors = errors,
                                     !.retorno = Some(<<total_chunks, errors>>)]
                   ELSE [lote EXCEPT !.pc = "progresso", !.idx = lote.idx + 1,
                                     !.total_chunks = total_chunks, !.errors = errors]
    /\ eventos' = Append(eventos, [tipo |-> "arquivo", idx |-> lote.idx])
    /\ UNCHANGED <<uploaded_files, progress_callback>>
    /\ UNCHANGED <<gerados, armazenados, operacao>>
    /\ UNCHANGED vars_workflow
    /\ UNCHANGED vars_masking
    /\ UNCHANGED vars_outros

NextLote ==
    \/ IniciarLote
    \/ AvisarProgresso
    \/ ProcessarArquivo

SpecLote == InitLote /\ [][NextLote]_vars

\* the positions of the files processed so far, in the order of processing
C20_Processados ==
    LET arq == SelectSeq(eventos, LAMBDA e : e.tipo = "arquivo")
    IN  [k \in 1..Len(arq) |-> arq[k].idx]

C20_Falhou(f) == f.desfecho.tipo # "ok"

\* the entry of the error list that tells of the failure of file f
C20_Mensagem(f) ==
    f.name \o ": " \o (IF f.desfecho.tipo = "vazio"
                       THEN "PDF is empty or contains no extractable text"
                       ELSE f.desfecho.msg)

RECURSIVE C20_Soma(_)
C20_Soma(fs) ==
    IF fs = << >> THEN 0
    ELSE (IF C20_Falhou(Head(fs)) THEN 0 ELSE Head(fs).desfecho.chunks) + C20_Soma(Tail(fs))

\* C20: the files of a batch are processed one at a time in the order of
\* the list, each exactly once; a file that fails does not end the batch;
\* the error list returned has one entry per failed file, in batch order, and
\* the total returned is the sum of the chunks of the files that succeeded.
C20_LoteCompleto ==
    /\ C20_Processados = [k \in 1..Len(C20_Processados) |-> k]
    /\ lote.pc = "excecao" => progress_callback = "levanta"
    /\ lote.pc = "progresso" => Len(C20_Processados) = lote.idx - 1
    /\ lote.pc = "retornado" =>
          LET falhos == SelectSeq(uploaded_files, C20_Falhou)
              errors == lote.retorno[1][2]
          IN  /\ Len(C20_Processados) = Len(uploaded_files)
              /\ errors = [k \in 1..Len(falhos) |-> C20_Mensagem(falhos[k])]
              /\ lote.retorno[1][1] = C20_Soma(uploaded_files)

C20_Witness ==
    /\ lote.pc = "retornado"
    /\ Len(uploaded_files) = 3
    /\ C20_Falhou(uploaded_files[1])
    /\ C20_Falhou(uploaded_files[2])
    /\ uploaded_files[1].desfecho.tipo # uploaded_files[2].desfecho.tipo
    /\ ~C20_Falhou(uploaded_files[3])
    /\ lote.retorno[1][1] = 2
    /\ Len(lote.retorno[1][2]) = 2

\* C21: with a progress callback, every file of the batch is followed by a
\* progress report made after the file was processed and before the next
\* file is processed or, for the last file, before the batch returns.
C21_ProgressoDepoisDeCadaArquivo ==
    (progress_callback = "retorna" /\ lote.pc = "retornado") =>
        \A p \in 1..Len(eventos) :
            eventos[p].tipo = "arquivo" =>
                /\ p < Len(eventos)
                /\ eventos[p + 1].tipo = "progresso"

\* C21 as amended: with a progress callback that returns, every file is
\* preceded by one progress report, naming the file's position, made after
\* the file before it was processed; no report follows the last file.
C21_ProgressoAntesDeCadaArquivo ==
    progress_callback = "retorna" =>
        /\ \A p \in 1..Len(eventos) :
               eventos[p].tipo = (IF p % 2 = 1 THEN "progresso" ELSE "arquivo")
               /\ eventos[p].idx = (p + 1) \div 2
        /\ lote.pc = "retornado" => Len(eventos) = 2 * Len(uploaded_files)
        /\ lote.pc = "arquivo" => Len(eventos) = 2 * lote.idx - 1

C21_Witness ==
    /\ progress_callback = "retorna"
    /\ lote.pc = "retornado"
    /\ Len(uploaded_files) = 3
    /\ Len(eventos) = 6
    /\ eventos[6].tipo = "arquivo"

-----------------------------------------------------------------------------
(* graph/nodes.py: the node functions and the decision function, each       *)
(* called on its own on a state                                             *)

\* no chunk id made, nothing indexed, no batch under way
IngestaoParada ==
    /\ gerados = << >>
    /\ armazenados = {}
    /\ operacao = None
    /\ uploaded_files = << >>
    /\ progress_callback = "nenhum"
    /\ lote = [pc |-> "parado"]
    /\ eventos = << >>

\* queries: greetings in several spellings, short queries, and others
ConsultasNos ==
    { <<"o", "i">>,
      <<" ", "O", "i", "\n">>,
      <<"O", "L", "Á">>,
      <<"h", "i">>,
      <<"h", "i", "!">>,
      <<"a", "b">>,
      <<" ", " ", "a", "b", " ">>,
      <<"a", "b", "c">>,
      <<"B", "o", "m", " ", "D", "i", "a">>,
      <<"b", "o", "m", " ", " ", "d", "i", "a">>,
      <<"b", "o", "a", " ", "n", "o", "i", "t", "e", "!">>,
      <<" ", "O", "l", "á", " ">>,
      << >> }

\* the states the functions are called with: the initial state of a run for
\* every query, and states with every field filled or not
EstadosNos ==
    { estado_inicial(c, h) : c \in ConsultasNos, h \in Historicos }
    \cup
    [consulta : {<<"o", "i">>, <<"a", "b", "c">>},
     historico_conversa : Historicos,
     documentos_recuperados :
         {<< >>, <<[texto |-> "t1",
                    metadata |-> [documento_nome |-> "a.pdf", numero_pagina |-> 1],
                    score |-> 8 * 10 ^ Casas, distancia |-> 2 * 10 ^ Casas]>>},
     contexto : {<< >>, <<"contexto anterior">>},
     resposta : {<< >>, <<"resposta anterior">>},
     fontes : {<< >>, <<[documento_nome |-> "b.pdf", numero_pagina |-> 7,
                         score |-> 9 * 10 ^ Casas]>>},
     precisa_recuperacao : BOOLEAN,
     erro : {None, Some(<< >>), Some(<<"timeout">>)}]

\* what vector_store.buscar_documentos returns or raises
SaidasBusca ==
    { Ok(<< >>),
      Ok(<<[texto |-> "t2",
            metadata |-> [documento_nome |-> "a.pdf", numero_pagina |-> 2],
            score |-> 75 * 10 ^ (Casas - 1), distancia |-> 25 * 10 ^ (Casas - 1)]>>),
      Raise(<<"Connection refused">>) }

InitNos ==
    /\ entrada \in {Some(st) : st \in EstadosNos}
    /\ no_chamado = None
    /\ devolvido = None
    /\ conexao = [pc |-> "parado"]
    /\ sessao = [pc |-> "parado"]
    /\ WorkflowParado
    /\ MaskingParado
    /\ IngestaoParada

\* one of the four node functions, or decidir_proximo_no, is called on the
\* state; the retrieval gateway and the language model answer as they may
ChamarNo ==
    /\ no_chamado = None
    /\ \E no \in Nos \cup {"decidir"} :
          /\ no_chamado' = Some(no)
          /\ devolvido' \in
                (CASE no = "analisar" -> {analisar_consulta(entrada[1])}
                   [] no = "recuperar" ->
                        {recuperar_documentos(entrada[1], b) : b \in SaidasBusca}
                   [] no = "formatar" -> {formatar_contexto(entrada[1])}
                   [] no = "gerar" ->
                        {gerar_resposta(entrada[1], c, i)
                           : c \in Construtores, i \in InvokeSaidas}
                   [] no = "decidir" -> {decidir_proximo_no(entrada[1])})
    /\ UNCHANGED <<entrada, conexao, sessao>>
    /\ UNCHANGED vars_workflow
    /\ UNCHANGED vars_masking
    /\ UNCHANGED vars_ingestao

SpecNos == InitNos /\ [][ChamarNo]_vars

C23_Saudacoes ==
    { <<"o", "i">>, <<"o", "l", "á">>, <<"b", "o", "m", " ", "d", "i", "a">>,
      <<"b", "o", "a", " ", "t", "a", "r", "d", "e">>,
      <<"b", "o", "a", " ", "n", "o", "i", "t", "e">>,
      <<"h", "e", "l", "l", "o">>, <<"h", "i">> }

\* C23: analisar_consulta sets precisa_recuperacao to false exactly when the
\* trimmed, lower-cased query is one of the seven greeting tokens or the
\* trimmed query has fewer than 3 characters, whatever the other fields of
\* the state hold.
C23_SaudacaoOuCurta ==
    (no_chamado = Some("analisar")) =>
        /\ devolvido.tipo = "ok"
        /\ devolvido.valor.precisa_recuperacao =
              ~ ( \/ Strip(Lower(entrada[1].consulta)) \in C23_Saudacoes
                  \/ Len(Strip(entrada[1].consulta)) < 3 )

C23_Witness ==
    /\ no_chamado = Some("analisar")
    /\ entrada[1].consulta = <<" ", "O", "l", "á", " ">>
    /\ entrada[1].precisa_recuperacao
    /\ ~ devolvido.valor.precisa_recuperacao

\* the fields of the state a node may change
C24_Donos(no) ==
    CASE no = "analisar" -> {"precisa_recuperacao"}
      [] no = "recuperar" -> {"documentos_recuperados", "fontes", "erro"}
      [] no = "formatar" -> {"contexto"}
      [] no = "gerar" -> {"resposta", "erro"}

\* C24: in every run each node leaves unchanged every field of the state
\* that is not its own: the query and the history are never changed,
\* ANALYZE changes only precisa_recuperacao, RETRIEVE only
\* documentos_recuperados, fontes and erro, FORMAT only contexto, GENERATE
\* only resposta and erro.
C24_CamposAlheios ==
    [][(pc \in Nos) =>
         (\A campo \in DOMAIN state :
              campo \notin C24_Donos(pc) => (state'[campo] = state[campo]))
      ]_vars

C24_Witness ==
    /\ pc = "retornado"
    /\ executados = <<"analisar", "recuperar", "formatar", "gerar">>
    /\ state.historico_conversa # << >>
    /\ state.documentos_recuperados # << >>
    /\ state.fontes # << >>
    /\ state.contexto # << >>
    /\ state.erro # None

----------------------------------------------------------------------------
(* VectorStore._conectar_chromadb: the connection to the index, with retry *)

MaxTentativas == 3

NosParados == entrada = None /\ no_chamado = None /\ devolvido = None

\* VectorStore(max_retries, retry_delay) has stored its arguments and calls
\* _conectar_chromadb, which is about to evaluate range(1, max_retries + 1)
InitConexao ==
    /\ conexao \in [pc : {"laco"},
                    max_retries : 0..MaxTentativas,
                    retry_delay : {0, 2, 5},
                    tentativa : {1},
                    registro : {<< >>},
                    retorno : {None}]
    /\ sessao = [pc |-> "parado"]
    /\ NosParados
    /\ WorkflowParado
    /\ MaskingParado
    /\ IngestaoParada

\* one turn of the loop up to its return, its raise or its sleep: the client
\* is built and its heartbeat is asked; either of the two may raise
Tentar ==
    /\ conexao.pc = "laco"
    /\ conexao.tentativa <= conexao.max_retries
    /\ \E desfecho \in {"conectado", "HttpClient levanta", "heartbeat levanta"} :
          LET feito == Append(conexao.registro,
                              [tipo |-> "tentativa", n |-> conexao.tentativa,
                               desfecho |-> desfecho])
          IN  conexao' =
                IF desfecho = "conectado"
                THEN [conexao EXCEPT !.pc = "retornou", !.registro = feito,
                                     !.retorno = Some(Ok([client |-> conexao.tentativa]))]
                ELSE IF conexao.tentativa < conexao.max_retries
                THEN [conexao EXCEPT !.pc = "sleep", !.registro = feito]
                ELSE [conexao EXCEPT !.pc = "levantou", !.registro = feito,
                                     !.retorno = Some(Raise("ConnectionError"))]
    /\ UNCHANGED <<entrada, no_chamado, devolvido, sessao>>
    /\ UNCHANGED vars_workflow
    /\ UNCHANGED vars_masking
    /\ UNCHANGED vars_ingestao

\* time.sleep(self.retry_delay), then the next value of the range
Esperar ==
    /\ conexao.pc = "sleep"
    /\ conexao' = [conexao EXCEPT
                      !.pc = "laco",
                      !.tentativa = @ + 1,
                      !.registro = Append(@, [tipo |-> "sleep",
                                              segundos |-> conexao.retry_delay])]
    /\ UNCHANGED <<entrada, no_chamado, devolvido, sessao>>
    /\ UNCHANGED vars_workflow
    /\ UNCHANGED vars_masking
    /\ UNCHANGED vars_ingestao

\* the range is exhausted: the for statement ends and the function, which
\* has no statement after it, returns None
FimDoLaco ==
    /\ conexao.pc = "laco"
    /\ conexao.tentativa > conexao.max_retries
    /\ conexao' = [conexao EXCEPT !.pc = "retornou", !.retorno = Some(Ok(None))]
    /\ UNCHANGED <<entrada, no_chamado, devolvido, sessao>>
    /\ UNCHANGED vars_workflow
    /\ UNCHANGED vars_masking
    /\ UNCHANGED vars_ingestao

SpecConexao == InitConexao /\ [][Tentar \/ Esperar \/ FimDoLaco]_vars

C25_Tentativas ==
    {p \in 1..Len(conexao.registro) : conexao.registro[p].tipo = "tentativa"}

C25_Terminou == conexao.pc \in {"retornou", "levantou"}

\* C25: for any configured max_retries, _conectar_chromadb makes at most
\* max_retries attempts, sleeps retry_delay only between a failed attempt
\* and the next one, returns the client of the first attempt whose
\* heartbeat succeeds, raises ConnectionError when every attempt fails, and
\* never returns without a connected client.
C25_RetryLimitado ==
    conexao.pc # "parado" =>
        LET reg == conexao.registro IN
        /\ Cardinality(C25_Tentativas) <= conexao.max_retries
        /\ \A p \in 1..Len(reg) :
              reg[p].tipo = "sleep" =>
                  /\ reg[p].segundos = conexao.retry_delay
                  /\ p > 1
                  /\ reg[p - 1].tipo = "tentativa"
                  /\ reg[p - 1].desfecho # "conectado"
                  /\ C25_Terminou => (p < Len(reg) /\ reg[p + 1].tipo = "tentativa")
        /\ conexao.pc = "retornou" =>
              /\ conexao.retorno # Some(Ok(None))
              /\ reg # << >>
              /\ reg[Len(reg)].desfecho = "conectado"
              /\ conexao.retorno = Some(Ok([client |-> reg[Len(reg)].n]))
              /\ \A p \in C25_Tentativas : p < Len(reg) => reg[p].desfecho # "conectado"
        /\ (C25_Terminou /\ \A p \in C25_Tentativas : reg[p].desfecho # "conectado")
              => (conexao.pc = "levantou" /\ conexao.retorno = Some(Raise("ConnectionError")))

\* the same, for a max_retries of one or more
C25_RetryLimitadoDesdeUm ==
    conexao.pc # "parado" /\ conexao.max_retries >= 1 => C25_RetryLimitado

----------------------------------------------------------------------------
(* The prompt of GENERATE in the runs of the workflow *)

\* C26: in every run where precisa_recuperacao is true the contexto that
\* reaches GENERATE is non-empty and the messages given to the language
\* model are those of the template with context; in every run where it is
\* false the contexto is empty and the messages are those of the template
\* without context.
C26_ModeloPorRecuperacao ==
    EmExecucao =>
        /\ pc = "gerar" =>
              /\ state.precisa_recuperacao <=> state.contexto # << >>
              /\ Mensagens(state).template =
                    (IF state.precisa_recuperacao THEN "com_contexto"
                                                  ELSE "sem_contexto")
        /\ \A i \in 1..Len(llm) :
              llm[i].invoke # None =>
                  LET m == llm[i].invoke[1].mensagens
                  IN  /\ m.consulta = state.consulta
                      /\ IF state.precisa_recuperacao
                         THEN /\ m.template = "com_contexto"
                              /\ m.contexto = state.contexto
                              /\ m.contexto # << >>
                         ELSE /\ m.template = "sem_contexto"
                              /\ state.contexto = << >>

\* a question whose retrieval found nothing reached the language model
\* with the sentinel as its context
C26_Witness ==
    /\ pc = "retornado"
    /\ state.precisa_recuperacao
    /\ state.documentos_recuperados = << >>
    /\ LLMInvocado
    /\ Ultimo(llm).invoke[1].mensagens.template = "com_contexto"
    /\ Ultimo(llm).invoke[1].mensagens.contexto = SemDocumentos

----------------------------------------------------------------------------
(* The fork after ANALYZE in the runs of processar_consulta *)

C27_Vezes(no) ==
    Cardinality({i \in 1..Len(executados) : executados[i] = no})

\* C27: in every run started by processar_consulta the field erro is None
\* when the fork after ANALYZE is evaluated, so the fork never answers
\* "fim" and every run executes GENERATE exactly once.
C27_ForkSemErro ==
    EmExecucao =>
        /\ executados = <<"analisar">> =>
              /\ state.erro = None
              /\ decidir_proximo_no(state) # "fim"
              /\ pc \in {"recuperar", "gerar"}
        /\ pc = "analisar" => state.erro = None
        /\ C27_Vezes("gerar") <= 1
        /\ pc \in {END, "retornado"} =>
              /\ C27_Vezes("gerar") = 1
              /\ Ultimo(executados) = "gerar"
        /\ pc # "excecao"

\* a finished run that went from the fork to GENERATE, which failed: the
\* field erro was set, but only after the fork
C27_Witness ==
    /\ pc = "retornado"
    /\ executados = <<"analisar", "gerar">>
    /\ state.erro # None

----------------------------------------------------------------------------
(* simple_rag/main.py: the chat handler and the history of the session *)

MaxTurnos == 3

\* a message object: (turno, k) is its identity, the k-th message made in
\* the turn, the user's being the first
Mensagem(tipo, turno, k, content, tool_calls) ==
    [tipo |-> tipo, turno |-> turno, k |-> k, content |-> content,
     tool_calls |-> tool_calls]

\* the messages the graph of the agent adds to its state in one invoke:
\* ollama_call answers at once (with a text or with none), or asks for the
\* tool first, with or without a text beside the tool call; tool_node then
\* adds the ToolMessage and ollama_call answers
NovasMensagens(turno) ==
    { <<Mensagem("ai", turno, 2, "resposta", FALSE)>>,
      <<Mensagem("ai", turno, 2, "", FALSE)>>,
      <<Mensagem("ai", turno, 2, "", TRUE),
        Mensagem("tool", turno, 3, "contexto", FALSE),
        Mensagem("ai", turno, 4, "resposta", FALSE)>>,
      <<Mensagem("ai", turno, 2, "vou procurar", TRUE),
        Mensagem("tool", turno, 3, "contexto", FALSE),
        Mensagem("ai", turno, 4, "resposta", FALSE)>> }

\* agent.invoke({"messages": message_history}): the channel adds the
\* lists with operator.add, so the result holds the input, then the new
\* messages
agent_invoke(message_history, novas) ==
    [messages |-> message_history \o novas]

AIComConteudo(msg) == msg.tipo = "ai" /\ msg.content # ""

\* main: the message_history the handler leaves in the session when the
\* agent returns: the user message is appended, then every AIMessage of
\* result["messages"] that has a content
main_historico(message_history, user_message, novas) ==
    LET com_usuario == Append(message_history, user_message)
        result == agent_invoke(com_usuario, novas)
    IN  com_usuario \o SelectSeq(result.messages, AIComConteudo)

\* start: the session has an agent and an empty history
InitChat ==
    /\ sessao = [pc |-> "pronta", message_history |-> << >>,
                 conversa |-> << >>, turnos |-> 0, falhas |-> 0]
    /\ conexao = [pc |-> "parado"]
    /\ NosParados
    /\ WorkflowParado
    /\ MaskingParado
    /\ IngestaoParada

\* main handles one text message of the user: the agent answers, or raises
\* after the user message was appended to the list of the session
Main ==
    /\ sessao.pc = "pronta"
    /\ sessao.turnos < MaxTurnos
    /\ LET turno == sessao.turnos + 1
           user_message == Mensagem("human", turno, 1, "pergunta", FALSE)
       IN  \/ \E novas \in NovasMensagens(turno) :
                 sessao' = [sessao EXCEPT
                    !.turnos = turno,
                    !.conversa = @ \o <<user_message>> \o novas,
                    !.message_history =
                        main_historico(sessao.message_history, user_message, novas)]
           \/ sessao' = [sessao EXCEPT
                    !.turnos = turno,
                    !.falhas = @ + 1,
                    !.conversa = Append(@, user_message),
                    !.message_history = Append(@, user_message)]
    /\ UNCHANGED <<entrada, no_chamado, devolvido, conexao>>
    /\ UNCHANGED vars_workflow
    /\ UNCHANGED vars_masking
    /\ UNCHANGED vars_ingestao

SpecChat == InitChat /\ [][Main]_vars

C28_Guardada(msg) == msg.tipo = "human" \/ AIComConteudo(msg)

\* C28: after any sequence of successfully answered user messages the
\* message_history of the session holds each user message and each AI reply
\* exactly once, in the order of the conversation.
C28_HistoricoSemRepeticao ==
    (sessao.pc = "pronta" /\ sessao.falhas = 0) =>
        sessao.message_history = SelectSeq(sessao.conversa, C28_Guardada)

\* the same, for the first answered message of a session
C28_PrimeiroTurno ==
    (sessao.pc = "pronta" /\ sessao.falhas = 0 /\ sessao.turnos <= 1) =>
        sessao.message_history = SelectSeq(sessao.conversa, C28_Guardada)

----------------------------------------------------------------------------
(* llm_rag/vector_store.py: the collection through the life of the store *)

\* C29: while self.collection is None each of adicionar_documentos,
\* buscar_documentos, deletar_documento, listar_documentos,
\* contar_documentos and limpar_colecao raises the ValueError, calls nothing
\* of the remote service and changes nothing; once set, self.collection
\* stays set through every one of these calls, and limpar_colecao, when it
\* returns, leaves a collection of the same name with no chunk.
C29_Chamou ==
    /\ operacao' # None
    /\ operacao = None \/ operacao'[1].alterna # operacao[1].alterna

C29_Passo ==
    /\ collection # None => collection' = collection
    /\ C29_Chamou =>
          LET o == operacao'[1]
          IN  /\ collection = None =>
                    /\ o.retorno = Raise(MsgColecaoNaoCriada)
                    /\ o.chamadas = << >>
                    /\ armazenados' = armazenados
                    /\ collection' = None
              /\ collection # None => o.retorno # Raise(MsgColecaoNaoCriada)
              /\ (o.op = "limpar_colecao" /\ o.retorno.tipo = "ok") =>
                    /\ collection' = collection
                    /\ collection' # None
                    /\ armazenados' = {}

C29_CicloDeVida == [][C29_Passo]_vars

\* limpar_colecao returned on a collection that had chunks
C29_Witness ==
    /\ operacao # None
    /\ operacao[1].op = "limpar_colecao"
    /\ operacao[1].retorno.tipo = "ok"
    /\ operacao[1].antes > 0
    /\ operacao[1].chamadas = <<"delete_collection", "get_or_create_collection">>
    /\ collection = Some(chroma_colecao)
    /\ armazenados = {}

====
